---- MODULE Spec2Model ----
(***************************************************************************)
(* Model of the in-memory trade store of the FIX market-data client:       *)
(* the ring buffer of Trade records (trades, head, count, maxSize,          *)
(* updateCount) and the subscription registry kept under the same lock.    *)
(*                                                                         *)
(* Every store method holds ts.mu for its whole body, so each method is    *)
(* one atomic step.  A method is an operator on the receiver ts, the       *)
(* record of the TradeStore fields: a writer returns the store it leaves,  *)
(* a reader (GetRecentTrades, GetAllTrades) returns its result, computed   *)
(* loop by loop as the Go code computes it.  The variables hold the        *)
(* fields of the one store of the program; the actions apply the writers.  *)
(*                                                                         *)
(* A Go slice result is the record [isNil, items]: nil is                  *)
(* [isNil |-> TRUE, items |-> <<>>], make([]Trade, n) filled in is         *)
(* [isNil |-> FALSE, items |-> ...].                                       *)
(*                                                                         *)
(* Trade.Price carries the marker of a record, as in the tests             *)
(* (Price: strconv.Itoa(i)): the k-th record ever handed to AddTrades has  *)
(* Price k; 0 stands for the empty string of a zero-valued Trade.  The     *)
(* store never inspects Price, so distinct markers are the general case.   *)
(* The wall-clock fields (Trade.Timestamp, Subscription.LastUpdate) are    *)
(* not part of the state modelled here.                                    *)
(*                                                                         *)
(* Specifications:                                                         *)
(*   Spec            the store methods called one after another;           *)
(*   SpecRegistry    the same with both request ids registrable and the    *)
(*                   history of the records passed under each id;          *)
(*   SpecApp         the client (requests.go, fixapp.go) around the        *)
(*                   registry: requests, unsubscribes, rejects, messages;  *)
(*   SpecHeld        a caller that writes to what the readers returned;    *)
(*   SpecThreads     goroutines calling the store concurrently, AddTrades  *)
(*                   taken statement by statement under ts.mu;             *)
(*   SpecThreadsFair the same with every goroutine eventually scheduled;   *)
(*   SpecParser      the parser's functions applied to messages;           *)
(*   SpecIngest      the message handler (parse, AddTrades, persistence in *)
(*                   one transaction, display) beside the commands;        *)
(*   SpecIngestFair  the same with both goroutines eventually scheduled;   *)
(*   SpecScan        the loops of the parser taken turn by turn on texts   *)
(*                   of any shape, SpecScanFair with every call running    *)
(*                   on to its next turn;                                  *)
(*   SpecOrders      the order store (storage.go) and a caller holding the *)
(*                   pointers it passed in and got back;                   *)
(*   SpecMd          the md command applied to command lines.              *)
(***************************************************************************)
EXTENDS Integers, Sequences, FiniteSets, TLC

\* Largest capacity passed to NewTradeStore.
MaxCap == 2

\* Cap on updateCount (records ever inserted), which is an int64 in the code.
MaxInserts == 5

\* Longest batch handed to one AddTrades call; exceeds every capacity.
MaxBatch == MaxCap + 1

\* Largest limit passed to GetRecentTrades; exceeds every number of live records.
MaxLimit == MaxCap + 1

Symbols == {"BTC-USD", "ETH-USD"}

\* Request ids market data arrives under.
ReqIds == {"req-1", "req-2"}

\* Request ids the client subscribes under; "req-2" is never registered.
SubscribedReqIds == {"req-1"}

SubscriptionTypes == {"1"}

\* A symbol no AddTrades call uses (the "NONEXISTENT" of the tests).
NoSuchSymbol == "NONEXISTENT"

VARIABLES maxSize, trades, head, count, updateCount, subscriptions

\* The fields of the one TradeStore of the program.
storeVars == <<maxSize, trades, head, count, updateCount, subscriptions>>

\* passed[r]: the records handed to AddTrades under request id r since r was last
\* registered (a history of the calls, not a field of the program).
\* nextReqId: the request ids sendMarketDataRequestWithOptions has drawn so far.
VARIABLES passed, nextReqId

\* held: what a caller of the readers holds, the slice and the pointers last
\* returned to it, as it has overwritten them since.
VARIABLES held

\* The goroutines calling the store concurrently: pc[t] is the position of thread t
\* in its current call, calls[t] the calls it has completed, pos[t] the record of
\* its batch a writer is at, mu the state of ts.mu, seen[t] the result a reader has
\* computed and not yet returned.
VARIABLES pc, calls, pos, mu, seen

threadVars == <<pc, calls, pos, mu, seen>>

\* The parser at work: inMsg is the market-data message handed to it, outVal what
\* the function last applied to it returned.
VARIABLES inMsg, outVal

parserVars == <<inMsg, outVal>>

\* The persistence of the message in hand: dbRows are the rows committed to the
\* database, dbTx the transaction storeTradesToDatabase has open, inFlight the
\* message the handler is at with the batch extracted from it.
VARIABLES dbRows, dbTx, inFlight

ingestVars == <<dbRows, dbTx, inFlight>>

\* The order store (OrderStore) and its caller.  heap is the memory of the Order
\* and Quote objects, from the addresses in use to the objects; orders and
\* quotes are the two maps of the store, from a key to the address of its
\* object; refs are the addresses the caller holds: refs.own of the objects it
\* made, refs.got of what the last read returned; clock is the time of
\* time.Now(), counted in calls.
VARIABLES heap, orders, quotes, refs, clock

orderVars == <<heap, orders, quotes, refs, clock>>

vars ==
    <<maxSize, trades, head, count, updateCount, subscriptions, passed, nextReqId, held,
      pc, calls, pos, mu, seen, inMsg, outVal, dbRows, dbTx, inFlight,
      heap, orders, quotes, refs, clock>>

\* The receiver: the fields of the TradeStore struct (the mutex aside).
TS ==
    [trades |-> trades, head |-> head, count |-> count, subscriptions |-> subscriptions,
     updateCount |-> updateCount, maxSize |-> maxSize]

\* The zero value of the Trade struct, as left in the slots by make([]Trade, maxSize).
ZeroTrade ==
    [Symbol |-> "", Price |-> 0, MdReqId |-> "", IsSnapshot |-> FALSE, IsUpdate |-> FALSE]

\* What the caller may have left in the fields AddTrades stamps.
InputMetas ==
    { [Symbol |-> "", MdReqId |-> "", IsSnapshot |-> FALSE, IsUpdate |-> FALSE],
      [Symbol |-> "STALE", MdReqId |-> "stale-req", IsSnapshot |-> TRUE, IsUpdate |-> TRUE] }

\* A batch of n input records carrying the markers first + 1 .. first + n.
MakeBatch(first, n, meta) ==
    [i \in 1..n |->
        [Symbol |-> meta.Symbol, Price |-> first + i, MdReqId |-> meta.MdReqId,
         IsSnapshot |-> meta.IsSnapshot, IsUpdate |-> meta.IsUpdate]]

NilSlice == [isNil |-> TRUE, items |-> <<>>]

MakeSlice(s) == [isNil |-> FALSE, items |-> s]

NewTradeStore(size) ==
    [trades |-> [i \in 0..(size - 1) |-> ZeroTrade], head |-> 0, count |-> 0,
     subscriptions |-> <<>>, updateCount |-> 0, maxSize |-> size]

\* Stamp without "trade.IsUpdate = !isSnapshot": the input's flag is kept.
Stamp_KeepsIsUpdate(trade, symbol, isSnapshot, mdReqId) ==
    [trade EXCEPT !.Symbol = symbol, !.MdReqId = mdReqId, !.IsSnapshot = isSnapshot]

\* The five assignments at the top of the loop body of AddTrades.
Stamp(trade, symbol, isSnapshot, mdReqId) ==
    [trade EXCEPT !.Symbol = symbol, !.MdReqId = mdReqId,
                  !.IsSnapshot = isSnapshot, !.IsUpdate = ~isSnapshot]

\* InsertOne without the capacity test: count grows on every insert.
InsertOne_AlwaysCounts(ts, trade) ==
    LET writeIdx == (ts.head + ts.count) % ts.maxSize
    IN  [ts EXCEPT !.trades[writeIdx] = trade, !.count = @ + 1, !.updateCount = @ + 1]

\* InsertOne that overwrites the oldest record of a full buffer but leaves head.
InsertOne_NoHeadAdvance(ts, trade) ==
    LET writeIdx == (ts.head + ts.count) % ts.maxSize
        written == [ts EXCEPT !.trades[writeIdx] = trade]
        moved == IF ts.count < ts.maxSize THEN [written EXCEPT !.count = @ + 1] ELSE written
    IN  [moved EXCEPT !.updateCount = @ + 1]

\* InsertOne whose write slot forgets head: writeIdx := count % maxSize.
InsertOne_WriteIdxIgnoresHead(ts, trade) ==
    LET writeIdx == ts.count % ts.maxSize
        written == [ts EXCEPT !.trades[writeIdx] = trade]
        moved == IF ts.count < ts.maxSize
                    THEN [written EXCEPT !.count = @ + 1]
                    ELSE [written EXCEPT !.head = (@ + 1) % ts.maxSize]
    IN  [moved EXCEPT !.updateCount = @ + 1]

\* The ring-buffer insertion at the bottom of the loop body of AddTrades.
InsertOne(ts, trade) ==
    LET writeIdx == (ts.head + ts.count) % ts.maxSize
        written == [ts EXCEPT !.trades[writeIdx] = trade]
        moved == IF ts.count < ts.maxSize
                    THEN [written EXCEPT !.count = @ + 1]
                    ELSE [written EXCEPT !.head = (@ + 1) % ts.maxSize]
    IN  [moved EXCEPT !.updateCount = @ + 1]

RECURSIVE InsertLoop(_, _, _, _, _, _)
\* for _, trade := range trades { ... }, from the i-th record on.
InsertLoop(ts, batch, i, symbol, isSnapshot, mdReqId) ==
    IF i > Len(batch)
       THEN ts
       ELSE InsertLoop(InsertOne(ts, Stamp(batch[i], symbol, isSnapshot, mdReqId)),
                       batch, i + 1, symbol, isSnapshot, mdReqId)

\* The bookkeeping with "sub.SnapshotReceived = isSnapshot" for the guarded assignment.
TouchSubscription_SnapshotFollowsLast(ts, n, isSnapshot, mdReqId) ==
    IF mdReqId \in DOMAIN ts.subscriptions
       THEN [ts EXCEPT !.subscriptions[mdReqId].TotalUpdates = @ + n,
                       !.subscriptions[mdReqId].SnapshotReceived = isSnapshot]
       ELSE ts

\* The bookkeeping with "sub.TotalUpdates++" for "+= int64(len(trades))".
TouchSubscription_CountsBatches(ts, n, isSnapshot, mdReqId) ==
    IF mdReqId \in DOMAIN ts.subscriptions
       THEN [ts EXCEPT !.subscriptions[mdReqId].TotalUpdates = @ + 1,
                       !.subscriptions[mdReqId].SnapshotReceived =
                            IF isSnapshot THEN TRUE ELSE @]
       ELSE ts

\* The bookkeeping that registers a request id it does not find.
TouchSubscription_CreatesMissing(ts, n, isSnapshot, mdReqId) ==
    [ts EXCEPT !.subscriptions =
        [r \in (DOMAIN ts.subscriptions) \cup {mdReqId} |->
            IF r = mdReqId
               THEN [Symbol |-> "", SubscriptionType |-> "", MdReqId |-> mdReqId,
                     Active |-> FALSE,
                     TotalUpdates |-> n + (IF r \in DOMAIN ts.subscriptions
                                             THEN ts.subscriptions[r].TotalUpdates ELSE 0),
                     SnapshotReceived |-> isSnapshot]
               ELSE ts.subscriptions[r]]]

\* The subscription bookkeeping at the top of AddTrades.
TouchSubscription(ts, n, isSnapshot, mdReqId) ==
    IF mdReqId \in DOMAIN ts.subscriptions
       THEN [ts EXCEPT !.subscriptions[mdReqId].TotalUpdates = @ + n,
                       !.subscriptions[mdReqId].SnapshotReceived =
                            IF isSnapshot THEN TRUE ELSE @]
       ELSE ts

AddTrades(ts, symbol, batch, isSnapshot, mdReqId) ==
    InsertLoop(TouchSubscription(ts, Len(batch), isSnapshot, mdReqId),
               batch, 1, symbol, isSnapshot, mdReqId)

\* AddSubscription that leaves the entry of an id already registered as it is.
AddSubscription_KeepsExisting(ts, symbol, subscriptionType, mdReqId) ==
    [ts EXCEPT !.subscriptions =
        [r \in (DOMAIN ts.subscriptions) \cup {mdReqId} |->
            IF r \in DOMAIN ts.subscriptions
               THEN ts.subscriptions[r]
               ELSE [Symbol |-> symbol, SubscriptionType |-> subscriptionType,
                     MdReqId |-> mdReqId, Active |-> TRUE, TotalUpdates |-> 0,
                     SnapshotReceived |-> FALSE]]]

AddSubscription(ts, symbol, subscriptionType, mdReqId) ==
    [ts EXCEPT !.subscriptions =
        [r \in (DOMAIN ts.subscriptions) \cup {mdReqId} |->
            IF r = mdReqId
               THEN [Symbol |-> symbol, SubscriptionType |-> subscriptionType,
                     MdReqId |-> mdReqId, Active |-> TRUE, TotalUpdates |-> 0,
                     SnapshotReceived |-> FALSE]
               ELSE ts.subscriptions[r]]]

\* The loop with a "break" after the first delete.
RemoveSubscription_FirstMatchOnly(ts, symbol) ==
    LET matching == {q \in DOMAIN ts.subscriptions : ts.subscriptions[q].Symbol = symbol}
    IN  IF matching = {}
           THEN ts
           ELSE [ts EXCEPT !.subscriptions =
                    [r \in (DOMAIN ts.subscriptions) \ {CHOOSE q \in matching : TRUE} |->
                        ts.subscriptions[r]]]

RemoveSubscription(ts, symbol) ==
    [ts EXCEPT !.subscriptions =
        [r \in {q \in DOMAIN ts.subscriptions : ts.subscriptions[q].Symbol # symbol} |->
            ts.subscriptions[r]]]

\* The removal that also drops the records of the buffer.
RemoveSubscriptionByReqId_DropsRecords(ts, reqId) ==
    IF reqId \in DOMAIN ts.subscriptions
       THEN [ts EXCEPT !.subscriptions =
                [r \in (DOMAIN ts.subscriptions) \ {reqId} |-> ts.subscriptions[r]],
                       !.head = 0, !.count = 0]
       ELSE ts

RemoveSubscriptionByReqId(ts, reqId) ==
    IF reqId \in DOMAIN ts.subscriptions
       THEN [ts EXCEPT !.subscriptions =
                [r \in (DOMAIN ts.subscriptions) \ {reqId} |-> ts.subscriptions[r]]]
       ELSE ts

RECURSIVE CountMatches_IgnoresLimit(_, _, _, _, _)
\* The first pass without "&& matchCount < limit".
CountMatches_IgnoresLimit(ts, symbol, limit, i, matchCount) ==
    IF i < ts.count
       THEN LET idx == (ts.head + ts.count - 1 - i) % ts.maxSize
            IN  CountMatches_IgnoresLimit(ts, symbol, limit, i + 1,
                                          IF ts.trades[idx].Symbol = symbol
                                             THEN matchCount + 1 ELSE matchCount)
       ELSE matchCount

RECURSIVE CountMatches(_, _, _, _, _)
\* First pass of GetRecentTrades: for i := 0; i < ts.count && matchCount < limit; i++.
CountMatches(ts, symbol, limit, i, matchCount) ==
    IF i < ts.count /\ matchCount < limit
       THEN LET idx == (ts.head + ts.count - 1 - i) % ts.maxSize
            IN  CountMatches(ts, symbol, limit, i + 1,
                             IF ts.trades[idx].Symbol = symbol
                                THEN matchCount + 1 ELSE matchCount)
       ELSE matchCount

RECURSIVE FillRecent_NewestFirst(_, _, _, _, _)
\* The second pass filling recent from its front: the newest match lands first.
FillRecent_NewestFirst(ts, symbol, i, resultIdx, recent) ==
    IF i < ts.count /\ resultIdx >= 0
       THEN LET idx == (ts.head + ts.count - 1 - i) % ts.maxSize
            IN  IF ts.trades[idx].Symbol = symbol
                   THEN FillRecent_NewestFirst(ts, symbol, i + 1, resultIdx - 1,
                            [recent EXCEPT ![Len(recent) - resultIdx] = ts.trades[idx]])
                   ELSE FillRecent_NewestFirst(ts, symbol, i + 1, resultIdx, recent)
       ELSE recent

RECURSIVE FillRecent_NoSymbolCheck(_, _, _, _, _)
\* The second pass without the symbol test: it copies the newest records.
FillRecent_NoSymbolCheck(ts, symbol, i, resultIdx, recent) ==
    IF i < ts.count /\ resultIdx >= 0
       THEN LET idx == (ts.head + ts.count - 1 - i) % ts.maxSize
            IN  FillRecent_NoSymbolCheck(ts, symbol, i + 1, resultIdx - 1,
                                         [recent EXCEPT ![resultIdx + 1] = ts.trades[idx]])
       ELSE recent

RECURSIVE FillRecent(_, _, _, _, _)
\* Second pass: for i := 0; i < ts.count && resultIdx >= 0; i++.
\* recent is 1-based here, so Go's recent[resultIdx] is recent[resultIdx + 1].
FillRecent(ts, symbol, i, resultIdx, recent) ==
    IF i < ts.count /\ resultIdx >= 0
       THEN LET idx == (ts.head + ts.count - 1 - i) % ts.maxSize
            IN  IF ts.trades[idx].Symbol = symbol
                   THEN FillRecent(ts, symbol, i + 1, resultIdx - 1,
                                   [recent EXCEPT ![resultIdx + 1] = ts.trades[idx]])
                   ELSE FillRecent(ts, symbol, i + 1, resultIdx, recent)
       ELSE recent

\* GetRecentTrades returning an empty, non-nil slice when nothing matches.
GetRecentTrades_EmptyOnNoMatch(ts, symbol, limit) ==
    IF ts.count = 0
       THEN NilSlice
       ELSE LET matchCount == CountMatches(ts, symbol, limit, 0, 0)
            IN  MakeSlice(FillRecent(ts, symbol, 0, matchCount - 1,
                                     [k \in 1..matchCount |-> ZeroTrade]))

GetRecentTrades(ts, symbol, limit) ==
    IF ts.count = 0
       THEN NilSlice
       ELSE LET matchCount == CountMatches(ts, symbol, limit, 0, 0)
            IN  IF matchCount = 0
                   THEN NilSlice
                   ELSE MakeSlice(FillRecent(ts, symbol, 0, matchCount - 1,
                                             [k \in 1..matchCount |-> ZeroTrade]))

RECURSIVE CopyAll_FromSlotZero(_, _, _)
\* The copy loop reading slot i instead of slot (head + i) % maxSize.
CopyAll_FromSlotZero(ts, i, result) ==
    IF i < ts.count
       THEN CopyAll_FromSlotZero(ts, i + 1, [result EXCEPT ![i + 1] = ts.trades[i]])
       ELSE result

RECURSIVE CopyAll(_, _, _)
\* The copy loop of GetAllTrades: for i := 0; i < ts.count; i++.
CopyAll(ts, i, result) ==
    IF i < ts.count
       THEN CopyAll(ts, i + 1,
                    [result EXCEPT ![i + 1] = ts.trades[(ts.head + i) % ts.maxSize]])
       ELSE result

\* GetAllTrades without the "count == 0" return: make([]Trade, 0) on an empty store.
GetAllTrades_NoEmptyCheck(ts) ==
    MakeSlice(CopyAll(ts, 0, [k \in 1..ts.count |-> ZeroTrade]))

GetAllTrades(ts) ==
    IF ts.count = 0
       THEN NilSlice
       ELSE MakeSlice(CopyAll(ts, 0, [k \in 1..ts.count |-> ZeroTrade]))

\* A slice as its holder sees it: array names the memory behind it, "result" for
\* the array of the reader's own make([]Trade, n).
Returned(slice) == [array |-> "result", isNil |-> slice.isNil, items |-> slice.items]

\* "result[reqId] = v": the pointers of the registry itself are handed out.
GetSubscriptionStatus_LivePointers(ts) ==
    [reqId \in DOMAIN ts.subscriptions |->
        [loc |-> "ts.subscriptions", key |-> reqId, val |-> ts.subscriptions[reqId]]]

\* A *Subscription is [loc, key, val]: loc names the memory it points into, "copy"
\* for the local of "sub := *v; result[reqId] = &sub", whose value is val.
GetSubscriptionStatus(ts) ==
    [reqId \in DOMAIN ts.subscriptions |->
        [loc |-> "copy", key |-> reqId, val |-> ts.subscriptions[reqId]]]

\* The slice under each symbol is the set of its pointers: the order of the appends
\* is the iteration order of the map.
GetSubscriptionsBySymbol(ts) ==
    [symbol \in {ts.subscriptions[r].Symbol : r \in DOMAIN ts.subscriptions} |->
        {[loc |-> "copy", key |-> r, val |-> ts.subscriptions[r]] :
            r \in {q \in DOMAIN ts.subscriptions : ts.subscriptions[q].Symbol = symbol}}]

\* The goroutines that call the store concurrently: writers and readers.
Writers == {1, 2}

Readers == {3, 4}

Threads == Writers \cup Readers

\* ts.mu with nobody holding it: writer is the holder of the write lock (0: none),
\* readers the holders of the read lock.
Unlocked == [writer |-> 0, readers |-> {}]

\* No goroutine calls the store concurrently: the calls are made one after another.
NoThreads ==
    /\ pc = [t \in Threads |-> "Done"]
    /\ calls = [t \in Threads |-> 0]
    /\ pos = [t \in Threads |-> 0]
    /\ mu = Unlocked
    /\ seen = [t \in Threads |-> NilSlice]

\* No message is with the parser.
NoParser ==
    /\ inMsg = [NoMdEntries |-> <<>>, text |-> <<>>, group |-> <<>>]
    /\ outVal = [fn |-> "", val |-> <<>>, arg |-> <<>>]

\* No message is being handled and the database is empty.
NoIngest ==
    /\ dbRows = <<>>
    /\ dbTx = [open |-> FALSE, rows |-> <<>>]
    /\ inFlight = [trades |-> <<>>, isSnapshot |-> FALSE, at |-> 0, failed |-> FALSE,
                   before |-> <<>>]

\* NewOrderStore(), a caller that holds nothing, time not yet read.
NoOrders ==
    /\ heap = <<>>
    /\ orders = <<>>
    /\ quotes = <<>>
    /\ refs = [own |-> {}, got |-> {}]
    /\ clock = 0

\* A caller that has not read anything yet.
NothingHeld == [slice |-> Returned(NilSlice), ptrs |-> {}]

\* The store is left as the writer returned it.
Becomes(ts) ==
    /\ maxSize' = ts.maxSize
    /\ trades' = ts.trades
    /\ head' = ts.head
    /\ count' = ts.count
    /\ updateCount' = ts.updateCount
    /\ subscriptions' = ts.subscriptions

\* NewTradeStore(maxSize, ""), for each capacity 1..MaxCap.
Init ==
    \E size \in 1..MaxCap :
        LET ts == NewTradeStore(size)
        IN  /\ maxSize = ts.maxSize
            /\ trades = ts.trades
            /\ head = ts.head
            /\ count = ts.count
            /\ updateCount = ts.updateCount
            /\ subscriptions = ts.subscriptions
            /\ passed = [r \in ReqIds |-> 0]
            /\ nextReqId = 0
            /\ held = NothingHeld
            /\ NoParser
            /\ NoIngest
            /\ NoOrders
            /\ NoThreads

\* The calls of AddTrades with a batch of n records the model makes in a state.
AddTradesArgsOfLen(n) ==
    IF n \in 0..MaxBatch /\ updateCount + n <= MaxInserts
       THEN [symbol : Symbols, n : {n}, meta : InputMetas,
             isSnapshot : BOOLEAN, mdReqId : ReqIds]
       ELSE {}

\* The calls of AddTrades the model makes in a state.
AddTradesArgs == UNION {AddTradesArgsOfLen(n) : n \in 0..MaxBatch}

BatchOf(a) == MakeBatch(updateCount, a.n, a.meta)

DoAddTrades ==
    /\ \E a \in AddTradesArgs :
            Becomes(AddTrades(TS, a.symbol, BatchOf(a), a.isSnapshot, a.mdReqId))
    /\ UNCHANGED <<passed, nextReqId, held, threadVars, parserVars, ingestVars, orderVars>>

DoAddSubscription ==
    /\ \E symbol \in Symbols, subscriptionType \in SubscriptionTypes,
          mdReqId \in SubscribedReqIds :
            Becomes(AddSubscription(TS, symbol, subscriptionType, mdReqId))
    /\ UNCHANGED <<passed, nextReqId, held, threadVars, parserVars, ingestVars, orderVars>>

DoRemoveSubscription ==
    /\ \E symbol \in Symbols : Becomes(RemoveSubscription(TS, symbol))
    /\ UNCHANGED <<passed, nextReqId, held, threadVars, parserVars, ingestVars, orderVars>>

DoRemoveSubscriptionByReqId ==
    /\ \E reqId \in ReqIds : Becomes(RemoveSubscriptionByReqId(TS, reqId))
    /\ UNCHANGED <<passed, nextReqId, held, threadVars, parserVars, ingestVars, orderVars>>

Next ==
    \/ DoAddTrades
    \/ DoAddSubscription
    \/ DoRemoveSubscription
    \/ DoRemoveSubscriptionByReqId

Spec == Init /\ [][Next]_vars

(***************************************************************************)
(* Properties of the ring buffer.                                          *)
(***************************************************************************)

Min(a, b) == IF a <= b THEN a ELSE b

\* The last n elements of s (all of s when it is shorter).
LastN(s, n) == SubSeq(s, Len(s) - Min(n, Len(s)) + 1, Len(s))

PricesOf(s) == [i \in 1..Len(s) |-> s[i].Price]

\* The markers lo, lo + 1, ..., hi in order.
Markers(lo, hi) == [i \in 1..(hi - lo + 1) |-> lo + i - 1]

QuerySymbols == Symbols \cup {NoSuchSymbol}

Limits == 0..MaxLimit

\* The records of the batch of call a as AddTrades stores them.
StampedBatch(a) ==
    [i \in 1..a.n |-> Stamp(BatchOf(a)[i], a.symbol, a.isSnapshot, a.mdReqId)]

\* The store call a leaves.
After(a) == AddTrades(TS, a.symbol, BatchOf(a), a.isSnapshot, a.mdReqId)

\* The slots holding live records.
LiveSlots == {(head + i) % maxSize : i \in 0..(count - 1)}

\* C1: in every state reachable from NewTradeStore(C), C >= 1, by AddTrades,
\* AddSubscription, RemoveSubscription and RemoveSubscriptionByReqId calls,
\* 0 <= count <= C and 0 <= head < C.
C1_CountAndHeadInRange ==
    /\ maxSize >= 1
    /\ 0 <= count /\ count <= maxSize
    /\ 0 <= head /\ head < maxSize

\* A full buffer that has evicted and whose head has moved off slot 0.
C1_Witness ==
    /\ maxSize >= 2
    /\ count = maxSize
    /\ updateCount > maxSize
    /\ head = maxSize - 1

\* C2: inserting one record r into a full buffer (count = C) evicts exactly the
\* oldest live record: GetAllTrades goes from [r1, r2, ..., rC] to
\* [r2, ..., rC, r], and count stays C.
C2_FullInsertEvictsOldest ==
    count = maxSize =>
        \A a \in AddTradesArgsOfLen(1) :
            LET post == After(a)
                got == GetAllTrades(post).items
            IN  /\ got = Tail(GetAllTrades(TS).items) \o StampedBatch(a)
                /\ Len(got) = maxSize
                /\ post.count = maxSize

\* A full buffer of capacity >= 2 that has already wrapped and takes one more record.
C2_Witness ==
    /\ maxSize >= 2
    /\ count = maxSize
    /\ updateCount > maxSize
    /\ AddTradesArgsOfLen(1) # {}

\* C3: when the N records inserted so far all went in under one symbol, with
\* the distinct markers 1..N, GetRecentTrades(symbol, N) returns exactly the
\* last min(N, C) markers in insertion order, oldest first, however often the
\* buffer has wrapped.
C3_RecentIsLastMarkers ==
    \A s \in Symbols :
        (\A k \in LiveSlots : trades[k].Symbol = s) =>
            LET N == updateCount
                got == GetRecentTrades(TS, s, N).items
            IN  /\ PricesOf(got) = Markers(N - Min(N, maxSize) + 1, N)
                /\ \A i \in 1..Len(got) : got[i].Symbol = s

\* One symbol only, capacity >= 2, and the buffer has wrapped around twice.
C3_Witness ==
    /\ maxSize >= 2
    /\ updateCount > 2 * maxSize
    /\ \A k \in LiveSlots : trades[k].Symbol = "BTC-USD"

\* C4: GetRecentTrades(s, limit) returns at most limit records, and they are the
\* last min(limit, m) elements of GetAllTrades() filtered to symbol s, in the
\* same oldest-first order.
C4_RecentIsTailOfMatches ==
    \A s \in QuerySymbols, limit \in Limits :
        LET IsMatch(t) == t.Symbol = s
            matches == SelectSeq(GetAllTrades(TS).items, IsMatch)
            got == GetRecentTrades(TS, s, limit).items
        IN  /\ Len(got) <= limit
            /\ got = LastN(matches, limit)

\* A wrapped buffer holding two records of one symbol: limit 1 cuts the matches.
C4_Witness ==
    /\ updateCount > maxSize
    /\ \E s \in Symbols :
          /\ Cardinality({k \in LiveSlots : trades[k].Symbol = s}) >= 2
          /\ Len(GetRecentTrades(TS, s, 1).items) = 1

\* C5: one AddTrades call with a batch of B > C records leaves the store holding
\* exactly the last C records of that batch, in batch order, whatever it held.
C5_OversizedBatchKeepsLastC ==
    \A n \in (maxSize + 1)..MaxBatch :
        \A a \in AddTradesArgsOfLen(n) :
            LET post == After(a)
            IN  /\ GetAllTrades(post).items = LastN(StampedBatch(a), maxSize)
                /\ post.count = maxSize

\* A full buffer of capacity >= 2 about to take a batch larger than itself.
C5_Witness ==
    /\ maxSize >= 2
    /\ count = maxSize
    /\ \E n \in (maxSize + 1)..MaxBatch : AddTradesArgsOfLen(n) # {}

\* C6: every record GetRecentTrades(B, limit) returns has Symbol = B, and no
\* record of a batch inserted under a symbol A # B is returned for B.
C6_SymbolFiltering ==
    /\ \A s \in QuerySymbols, limit \in Limits :
          LET got == GetRecentTrades(TS, s, limit).items
          IN  \A i \in 1..Len(got) : got[i].Symbol = s
    /\ \A a \in AddTradesArgs :
          LET post == After(a)
          IN  \A s \in QuerySymbols \ {a.symbol} :
                  LET got == GetRecentTrades(post, s, MaxLimit).items
                  IN  \A i \in 1..Len(got) : got[i].Price <= updateCount

\* Both symbols are live in a buffer that has evicted.
C6_Witness ==
    /\ updateCount > maxSize
    /\ \A s \in Symbols : \E k \in LiveSlots : trades[k].Symbol = s

\* C7: GetAllTrades returns every live record in arrival order: its length is
\* count, element i is the record in slot (head + i) mod C, and the records
\* are the latest count arrivals, oldest first.
C7_AllTradesInArrivalOrder ==
    LET got == GetAllTrades(TS)
    IN  /\ Len(got.items) = count
        /\ \A i \in 0..(count - 1) : got.items[i + 1] = trades[(head + i) % maxSize]
        /\ count = Min(updateCount, maxSize)
        /\ PricesOf(got.items) = Markers(updateCount - count + 1, updateCount)

\* A wrapped buffer whose oldest record is not in slot 0, holding both symbols.
C7_Witness ==
    /\ maxSize >= 2
    /\ head # 0
    /\ trades[0].Symbol # trades[1].Symbol

\* C8: on a store into which nothing has ever been inserted, GetRecentTrades
\* (any symbol, any limit) and GetAllTrades return nil, not an empty slice.
C8_EmptyStoreReturnsNil ==
    updateCount = 0 =>
        /\ GetAllTrades(TS) = NilSlice
        /\ \A s \in QuerySymbols, limit \in Limits : GetRecentTrades(TS, s, limit) = NilSlice

\* Nothing inserted yet, although a registered request id has had an (empty)
\* snapshot batch.
C8_Witness ==
    /\ updateCount = 0
    /\ \E r \in DOMAIN subscriptions : subscriptions[r].SnapshotReceived

\* The symbols without a live record in a store that holds records.
UnmatchedSymbols ==
    {s \in QuerySymbols : count > 0 /\ \A k \in LiveSlots : trades[k].Symbol # s}

\* C9 as claimed: what GetRecentTrades reports for a symbol not found in a
\* non-empty store differs from what it reports on an empty store.
C9_NotFoundDistinctFromEmpty ==
    \A s \in UnmatchedSymbols, limit \in Limits :
        GetRecentTrades(TS, s, limit) # GetRecentTrades(NewTradeStore(maxSize), s, limit)

\* C9: GetRecentTrades reports nil both for an empty store and for a symbol not
\* found in a non-empty store; the result does not tell the two apart.
C9_NotFoundSameAsEmpty ==
    \A s \in UnmatchedSymbols, limit \in Limits :
        /\ GetRecentTrades(TS, s, limit) = NilSlice
        /\ GetRecentTrades(NewTradeStore(maxSize), s, limit) = NilSlice

\* A full buffer holding records of one symbol only, queried for the other.
C9_Witness ==
    /\ count = maxSize
    /\ "ETH-USD" \in UnmatchedSymbols
    /\ "BTC-USD" \notin UnmatchedSymbols

\* C10: every live record has exactly one of IsSnapshot / IsUpdate true, and
\* the records a call of AddTrades leaves in the store carry the call's
\* symbol, request id and snapshot flag, whatever the input records held.
C10_StoreStampsRecords ==
    /\ \A k \in LiveSlots : trades[k].IsSnapshot # trades[k].IsUpdate
    /\ \A a \in AddTradesArgs :
          LET got == LastN(GetAllTrades(After(a)).items, a.n)
              kept == Len(got)
          IN  /\ kept = Min(a.n, maxSize)
              /\ \A i \in 1..kept :
                    /\ got[i].Symbol = a.symbol
                    /\ got[i].MdReqId = a.mdReqId
                    /\ got[i].IsSnapshot = a.isSnapshot
                    /\ got[i].IsUpdate = ~a.isSnapshot
                    /\ got[i].Price = updateCount + a.n - kept + i

\* A snapshot record and an update record, of different request ids, are live.
C10_Witness ==
    /\ maxSize >= 2
    /\ trades[0].IsSnapshot /\ ~trades[0].IsUpdate
    /\ trades[1].IsUpdate /\ ~trades[1].IsSnapshot
    /\ trades[0].MdReqId # trades[1].MdReqId
    /\ trades[0].MdReqId \in ReqIds /\ trades[1].MdReqId \in ReqIds

(***************************************************************************)
(* The subscription registry under every sequence of store operations:    *)
(* one store of capacity 1, both request ids of ReqIds registrable.       *)
(***************************************************************************)

InitRegistry ==
    LET ts == NewTradeStore(1)
    IN  /\ maxSize = ts.maxSize
        /\ trades = ts.trades
        /\ head = ts.head
        /\ count = ts.count
        /\ updateCount = ts.updateCount
        /\ subscriptions = ts.subscriptions
        /\ passed = [r \in ReqIds |-> 0]
        /\ nextReqId = 0
        /\ held = NothingHeld
        /\ NoParser
        /\ NoIngest
        /\ NoOrders
        /\ NoThreads

\* The history of the calls once the store has become post: n more records were
\* handed in under request id r; an id that is not registered has no history.
PassedAfter(post, r, n) ==
    [q \in ReqIds |->
        IF q \in DOMAIN post.subscriptions
           THEN IF q = r THEN passed[q] + n ELSE passed[q]
           ELSE 0]

RegAddTrades ==
    /\ \E a \in AddTradesArgs :
            /\ Becomes(After(a))
            /\ passed' = PassedAfter(After(a), a.mdReqId, a.n)
    /\ UNCHANGED <<nextReqId, held, threadVars, parserVars, ingestVars, orderVars>>

RegAddSubscription ==
    /\ \E symbol \in Symbols, subscriptionType \in SubscriptionTypes, mdReqId \in ReqIds :
            LET post == AddSubscription(TS, symbol, subscriptionType, mdReqId)
            IN  /\ Becomes(post)
                /\ passed' = [PassedAfter(post, mdReqId, 0) EXCEPT ![mdReqId] = 0]
    /\ UNCHANGED <<nextReqId, held, threadVars, parserVars, ingestVars, orderVars>>

RegRemoveSubscription ==
    /\ \E symbol \in Symbols :
            LET post == RemoveSubscription(TS, symbol)
            IN  /\ Becomes(post)
                /\ passed' = PassedAfter(post, "", 0)
    /\ UNCHANGED <<nextReqId, held, threadVars, parserVars, ingestVars, orderVars>>

RegRemoveSubscriptionByReqId ==
    /\ \E reqId \in ReqIds :
            LET post == RemoveSubscriptionByReqId(TS, reqId)
            IN  /\ Becomes(post)
                /\ passed' = PassedAfter(post, "", 0)
    /\ UNCHANGED <<nextReqId, held, threadVars, parserVars, ingestVars, orderVars>>

NextRegistry ==
    \/ RegAddTrades
    \/ RegAddSubscription
    \/ RegRemoveSubscription
    \/ RegRemoveSubscriptionByReqId

SpecRegistry == InitRegistry /\ [][NextRegistry]_vars

\* The stores a registered request id r can find itself in after one more store
\* operation that does not register r itself.
AfterOtherOps(r) ==
    {After(a) : a \in AddTradesArgs}
        \cup {AddSubscription(TS, symbol, "1", q) : symbol \in Symbols, q \in ReqIds \ {r}}
        \cup {RemoveSubscription(TS, symbol) : symbol \in Symbols}
        \cup {RemoveSubscriptionByReqId(TS, reqId) : reqId \in ReqIds}

\* AddSubscription leaves the flag of the id it registers false, and a batch sets
\* the flag of the registered id it arrives under exactly when it is a snapshot.
SnapshotFlagSetBySnapshotOnly ==
    /\ \A symbol \in Symbols, q \in ReqIds \ DOMAIN subscriptions :
            ~AddSubscription(TS, symbol, "1", q).subscriptions[q].SnapshotReceived
    /\ \A r \in DOMAIN subscriptions : \A a \in AddTradesArgs :
            After(a).subscriptions[r].SnapshotReceived
                = (subscriptions[r].SnapshotReceived \/ (a.isSnapshot /\ a.mdReqId = r))

\* C11 as stated: SnapshotReceived is false from AddSubscription until the first
\* snapshot batch under the request id, and once true it is true after every store
\* operation that leaves the request id in the registry.
C11_SnapshotReceivedStaysTrue ==
    /\ SnapshotFlagSetBySnapshotOnly
    /\ \A r \in DOMAIN subscriptions :
            subscriptions[r].SnapshotReceived =>
                \A post \in AfterOtherOps(r)
                          \cup {AddSubscription(TS, symbol, "1", r) : symbol \in Symbols} :
                    r \in DOMAIN post.subscriptions => post.subscriptions[r].SnapshotReceived

\* C11, amended: SnapshotReceived is false after every AddSubscription of the request
\* id (a first registration or a re-registration of an id already in the registry),
\* is set by the first snapshot batch under the id, and then is true after every
\* other store operation that leaves the id in the registry.
C11_SnapshotReceivedUntilReregistered ==
    /\ SnapshotFlagSetBySnapshotOnly
    /\ \A r \in DOMAIN subscriptions : \A symbol \in Symbols :
            ~AddSubscription(TS, symbol, "1", r).subscriptions[r].SnapshotReceived
    /\ \A r \in DOMAIN subscriptions :
            subscriptions[r].SnapshotReceived =>
                \A post \in AfterOtherOps(r) :
                    r \in DOMAIN post.subscriptions => post.subscriptions[r].SnapshotReceived

\* One id has received its snapshot, the other has received only updates so far.
C11_Witness ==
    /\ DOMAIN subscriptions = ReqIds
    /\ subscriptions["req-1"].SnapshotReceived
    /\ ~subscriptions["req-2"].SnapshotReceived
    /\ subscriptions["req-2"].TotalUpdates > 0
    /\ AddTradesArgs # {}

\* C14: for a registered request id, TotalUpdates is the number of records (the sum
\* of the batch lengths, not the number of batches) handed to AddTrades under that
\* id since the subscription was added.
C14_TotalUpdatesCountsRecords ==
    \A r \in DOMAIN subscriptions : subscriptions[r].TotalUpdates = passed[r]

\* A subscription that has taken more records than one batch holds, next to one
\* that was registered and has taken none.
C14_Witness ==
    /\ DOMAIN subscriptions = ReqIds
    /\ \E r \in ReqIds :
            /\ subscriptions[r].TotalUpdates > MaxBatch
            /\ \A q \in ReqIds \ {r} : subscriptions[q].TotalUpdates = 0
    /\ updateCount = MaxInserts

\* C16: RemoveSubscriptionByReqId of an unregistered id leaves the whole store as it
\* is, and AddTrades under an unregistered id stores the records of the batch but
\* leaves the registry exactly as it is.
C16_UnregisteredIdIsNoOp ==
    /\ \A reqId \in ReqIds \ DOMAIN subscriptions :
            RemoveSubscriptionByReqId(TS, reqId) = TS
    /\ \A a \in AddTradesArgs :
            a.mdReqId \notin DOMAIN subscriptions =>
                LET post == After(a)
                IN  /\ post.subscriptions = subscriptions
                    /\ post.updateCount = updateCount + a.n
                    /\ GetAllTrades(post).items
                           = LastN(GetAllTrades(TS).items \o StampedBatch(a), maxSize)

\* One id registered and counting, the other unregistered, a record in the store
\* and room for a batch.
C16_Witness ==
    /\ \E r \in ReqIds :
            /\ DOMAIN subscriptions = {r}
            /\ subscriptions[r].TotalUpdates > 0
    /\ count > 0
    /\ \E n \in 1..MaxBatch : AddTradesArgsOfLen(n) # {}

(***************************************************************************)
(* The client around the registry: the market-data requests it sends and  *)
(* the messages of the counterparty it handles.  quickfix.Send either     *)
(* succeeds or fails; the request id "md_<UnixNano>" is a fresh id per    *)
(* call, written "md_1", "md_2", ...                                       *)
(***************************************************************************)

\* Cap on the market-data requests sent (each draws a new request id).
MaxRequests == 3

\* Cap on the records the market-data messages handled by the client carry in all.
MaxMessages == 2

SubscriptionRequestTypeSnapshot == "0"

SubscriptionRequestTypeSubscribe == "1"

\* reqId := "md_" + strconv.FormatInt(time.Now().UnixNano(), 10), for the n-th call.
ReqIdOf(n) == "md_" \o ToString(n)

\* The request ids drawn so far.
IssuedReqIds == {ReqIdOf(n) : n \in 1..nextReqId}

\* The symbol lists of a request: one symbol, or two distinct ones in either order.
SymbolLists ==
    {<<symbol>> : symbol \in Symbols}
        \cup {<<s1, s2>> : <<s1, s2>> \in {p \in Symbols \X Symbols : p[1] # p[2]}}

RECURSIVE AddSubscriptions(_, _, _, _, _)
\* for _, symbol := range symbols { a.TradeStore.AddSubscription(symbol, subscriptionType, reqId) }
AddSubscriptions(ts, symbols, i, subscriptionType, reqId) ==
    IF i > Len(symbols)
       THEN ts
       ELSE AddSubscriptions(AddSubscription(ts, symbols[i], subscriptionType, reqId),
                             symbols, i + 1, subscriptionType, reqId)

RECURSIVE RemoveSubscriptions(_, _, _)
\* for _, symbol := range symbols { a.TradeStore.RemoveSubscription(symbol) }
RemoveSubscriptions(ts, symbols, i) ==
    IF i > Len(symbols)
       THEN ts
       ELSE RemoveSubscriptions(RemoveSubscription(ts, symbols[i]), symbols, i + 1)

\* The store sendMarketDataRequestWithOptions leaves; sendOk: quickfix.Send returned nil.
sendMarketDataRequestWithOptions(ts, symbols, subscriptionType, reqId, sendOk) ==
    LET tracked == IF subscriptionType = SubscriptionRequestTypeSubscribe
                      THEN AddSubscriptions(ts, symbols, 1, subscriptionType, reqId)
                      ELSE ts
    IN  IF sendOk THEN tracked ELSE RemoveSubscriptions(tracked, symbols, 1)

RECURSIVE RemoveSent(_, _)
\* The else-branches of the loop over symbolSubs, for the requests that were sent.
RemoveSent(ts, sent) ==
    IF sent = {}
       THEN ts
       ELSE LET reqId == CHOOSE r \in sent : TRUE
            IN  RemoveSent(RemoveSubscriptionByReqId(ts, reqId), sent \ {reqId})

\* The subscriptions sendUnsubscribeBySymbol collects in symbolSubs.
SymbolSubs(ts, symbol) ==
    {r \in DOMAIN ts.subscriptions : ts.subscriptions[r].Symbol = symbol}

\* The store sendUnsubscribeBySymbol leaves; sent: the request ids of symbolSubs
\* whose unsubscribe request quickfix.Send accepted.
sendUnsubscribeBySymbol(ts, symbol, sent) ==
    RemoveSent(ts, sent \cap SymbolSubs(ts, symbol))

sendUnsubscribeByReqId(ts, reqId, sendOk) ==
    IF reqId \notin DOMAIN ts.subscriptions
       THEN ts
       ELSE IF sendOk THEN RemoveSubscriptionByReqId(ts, reqId) ELSE ts

handleMarketDataReject(ts, mdReqId) == RemoveSubscriptionByReqId(ts, mdReqId)

\* extractTrades, then AddTrades; first: the marker of the first record.
handleMarketDataMessage(ts, first, symbol, n, isSnapshot, mdReqId) ==
    AddTrades(ts, symbol,
              MakeBatch(first, n, [Symbol |-> symbol, MdReqId |-> mdReqId,
                                   IsSnapshot |-> isSnapshot, IsUpdate |-> ~isSnapshot]),
              isSnapshot, mdReqId)

InitApp ==
    LET ts == NewTradeStore(1)
    IN  /\ maxSize = ts.maxSize
        /\ trades = ts.trades
        /\ head = ts.head
        /\ count = ts.count
        /\ updateCount = ts.updateCount
        /\ subscriptions = ts.subscriptions
        /\ passed = [r \in ReqIds |-> 0]
        /\ nextReqId = 0
        /\ held = NothingHeld
        /\ NoParser
        /\ NoIngest
        /\ NoOrders
        /\ NoThreads

\* The market-data requests the client can send in a state.
RequestArgs ==
    IF nextReqId < MaxRequests
       THEN [symbols : SymbolLists,
             subscriptionType : {SubscriptionRequestTypeSnapshot,
                                 SubscriptionRequestTypeSubscribe},
             sendOk : BOOLEAN]
       ELSE {}

\* The store request q leaves.
AfterRequest(q) ==
    sendMarketDataRequestWithOptions(TS, q.symbols, q.subscriptionType,
                                     ReqIdOf(nextReqId + 1), q.sendOk)

\* The market-data messages that can arrive in a state: one record (or none) for
\* a request id the client has drawn.
MessageArgs ==
    {m \in [symbol : Symbols, n : 0..1, isSnapshot : BOOLEAN, mdReqId : IssuedReqIds] :
        updateCount + m.n <= MaxMessages}

\* The store message m leaves.
AfterMessage(m) ==
    handleMarketDataMessage(TS, updateCount, m.symbol, m.n, m.isSnapshot, m.mdReqId)

SendMarketDataRequest ==
    /\ \E q \in RequestArgs : Becomes(AfterRequest(q))
    /\ nextReqId' = nextReqId + 1
    /\ UNCHANGED <<passed, held, threadVars, parserVars, ingestVars, orderVars>>

SendUnsubscribeBySymbol ==
    /\ \E symbol \in Symbols :
            \E sent \in SUBSET SymbolSubs(TS, symbol) :
                Becomes(sendUnsubscribeBySymbol(TS, symbol, sent))
    /\ UNCHANGED <<passed, nextReqId, held, threadVars, parserVars, ingestVars, orderVars>>

SendUnsubscribeByReqId ==
    /\ \E reqId \in IssuedReqIds, sendOk \in BOOLEAN :
            Becomes(sendUnsubscribeByReqId(TS, reqId, sendOk))
    /\ UNCHANGED <<passed, nextReqId, held, threadVars, parserVars, ingestVars, orderVars>>

HandleMarketDataReject ==
    /\ \E mdReqId \in IssuedReqIds : Becomes(handleMarketDataReject(TS, mdReqId))
    /\ UNCHANGED <<passed, nextReqId, held, threadVars, parserVars, ingestVars, orderVars>>

HandleMarketDataMessage ==
    /\ \E m \in MessageArgs : Becomes(AfterMessage(m))
    /\ UNCHANGED <<passed, nextReqId, held, threadVars, parserVars, ingestVars, orderVars>>

NextApp ==
    \/ SendMarketDataRequest
    \/ SendUnsubscribeBySymbol
    \/ SendUnsubscribeByReqId
    \/ HandleMarketDataReject
    \/ HandleMarketDataMessage

SpecApp == InitApp /\ [][NextApp]_vars

\* C12: a subscription leaves the registry only by an explicit unsubscribe or by a
\* market-data reject naming its request id: every other event (a market-data
\* request, sent or failed to send, and a market-data message) leaves every
\* registered request id in the registry.
C12_OnlyUnsubscribeOrRejectRemoves ==
    /\ \A q \in RequestArgs :
            DOMAIN subscriptions \subseteq DOMAIN AfterRequest(q).subscriptions
    /\ \A m \in MessageArgs :
            DOMAIN subscriptions \subseteq DOMAIN AfterMessage(m).subscriptions

\* C13: after a successfully sent subscribe request naming two or more symbols the
\* registry tracks a new subscription for each of the symbols, and every tracked
\* subscription has a request id of its own.
C13_EverySymbolTrackedUnderOwnId ==
    \A q \in RequestArgs :
        (/\ q.sendOk
         /\ q.subscriptionType = SubscriptionRequestTypeSubscribe
         /\ Len(q.symbols) >= 2) =>
            LET post == AfterRequest(q).subscriptions
                added == DOMAIN post \ DOMAIN subscriptions
            IN  /\ \A i \in 1..Len(q.symbols) :
                        \E r \in added : post[r].Symbol = q.symbols[i]
                /\ \A r1, r2 \in DOMAIN post :
                        post[r1].MdReqId = post[r2].MdReqId => r1 = r2

\* C15: RemoveSubscription(symbol) leaves exactly the entries whose Symbol differs
\* from symbol, each as it was, and nothing else of the store changes.
C15_RemoveBySymbolRemovesAllMatching ==
    \A symbol \in Symbols :
        LET post == RemoveSubscription(TS, symbol)
        IN  /\ DOMAIN post.subscriptions
                   = (DOMAIN subscriptions) \ SymbolSubs(TS, symbol)
            /\ \A r \in DOMAIN post.subscriptions :
                    post.subscriptions[r] = subscriptions[r]
            /\ post = [TS EXCEPT !.subscriptions = post.subscriptions]

\* Two subscriptions for one symbol and a third, which has received data, for the
\* other (the registry of TestSubscription_RemoveBySymbolRemovesAllMatching).
C15_Witness ==
    \E symbol \in Symbols :
        /\ Cardinality(SymbolSubs(TS, symbol)) = 2
        /\ \E r \in (DOMAIN subscriptions) \ SymbolSubs(TS, symbol) :
                subscriptions[r].TotalUpdates > 0

(***************************************************************************)
(* A caller of the readers that keeps what it was handed and writes to    *)
(* it: an element of the slice, or the Subscription behind a pointer.     *)
(***************************************************************************)

\* What the caller writes over a Trade and over a Subscription.
OverwrittenTrade ==
    [Symbol |-> "OVERWRITTEN", Price |-> -1, MdReqId |-> "OVERWRITTEN",
     IsSnapshot |-> TRUE, IsUpdate |-> TRUE]

OverwrittenSubscription ==
    [Symbol |-> "OVERWRITTEN", SubscriptionType |-> "OVERWRITTEN",
     MdReqId |-> "OVERWRITTEN", Active |-> FALSE, TotalUpdates |-> -1,
     SnapshotReceived |-> TRUE]

\* The writes open to the holder of h: slice[i] = ..., *p = ...
WritesTo(h) ==
    [target : {"slice"}, i : 1..Len(h.slice.items), p : {<<>>}]
        \cup [target : {"ptr"}, i : {0}, p : h.ptrs]

\* The store after write w by the holder of h: memory of the store changes when
\* the slice or the pointer written through refers to it.
StoreAfterWrite(ts, h, w) ==
    IF w.target = "slice"
       THEN IF h.slice.array = "ts.trades"
               THEN [ts EXCEPT !.trades[(ts.head + w.i - 1) % ts.maxSize] = OverwrittenTrade]
               ELSE ts
       ELSE IF w.p.loc = "ts.subscriptions" /\ w.p.key \in DOMAIN ts.subscriptions
               THEN [ts EXCEPT !.subscriptions[w.p.key] = OverwrittenSubscription]
               ELSE ts

\* What the holder of h holds after its write w.
HeldAfterWrite(h, w) ==
    IF w.target = "slice"
       THEN [h EXCEPT !.slice.items[w.i] = OverwrittenTrade]
       ELSE [h EXCEPT !.ptrs = (@ \ {w.p}) \cup {[w.p EXCEPT !.val = OverwrittenSubscription]}]

\* The pointers of a map of pointers, and of a map of slices of pointers.
PointersOf(m) == {m[k] : k \in DOMAIN m}

PointersOfAll(m) == UNION {m[k] : k \in DOMAIN m}

\* What the four readers return from store ts, pointers followed to their values.
ReadsOf(ts) ==
    [all |-> GetAllTrades(ts),
     recent |-> [q \in QuerySymbols \X Limits |-> GetRecentTrades(ts, q[1], q[2])],
     status |-> [r \in DOMAIN GetSubscriptionStatus(ts) |->
                    LET p == GetSubscriptionStatus(ts)[r]
                    IN  IF p.loc = "copy" THEN p.val ELSE ts.subscriptions[p.key]],
     bySymbol |-> [symbol \in DOMAIN GetSubscriptionsBySymbol(ts) |->
                    {IF p.loc = "copy" THEN p.val ELSE ts.subscriptions[p.key] :
                        p \in GetSubscriptionsBySymbol(ts)[symbol]}]]

CallGetAllTrades ==
    /\ held' = [held EXCEPT !.slice = Returned(GetAllTrades(TS))]
    /\ UNCHANGED <<storeVars, passed, nextReqId, threadVars, parserVars, ingestVars, orderVars>>

CallGetRecentTrades ==
    /\ \E symbol \in QuerySymbols, limit \in Limits :
            held' = [held EXCEPT !.slice = Returned(GetRecentTrades(TS, symbol, limit))]
    /\ UNCHANGED <<storeVars, passed, nextReqId, threadVars, parserVars, ingestVars, orderVars>>

CallGetSubscriptionStatus ==
    /\ held' = [held EXCEPT !.ptrs = PointersOf(GetSubscriptionStatus(TS))]
    /\ UNCHANGED <<storeVars, passed, nextReqId, threadVars, parserVars, ingestVars, orderVars>>

CallGetSubscriptionsBySymbol ==
    /\ held' = [held EXCEPT !.ptrs = PointersOfAll(GetSubscriptionsBySymbol(TS))]
    /\ UNCHANGED <<storeVars, passed, nextReqId, threadVars, parserVars, ingestVars, orderVars>>

WriteToHeld ==
    /\ \E w \in WritesTo(held) :
            /\ Becomes(StoreAfterWrite(TS, held, w))
            /\ held' = HeldAfterWrite(held, w)
    /\ UNCHANGED <<passed, nextReqId, threadVars, parserVars, ingestVars, orderVars>>

\* The store the caller reads: NewTradeStore(MaxCap), one request id in use.
InitHeld ==
    LET ts == NewTradeStore(MaxCap)
    IN  /\ maxSize = ts.maxSize
        /\ trades = ts.trades
        /\ head = ts.head
        /\ count = ts.count
        /\ updateCount = ts.updateCount
        /\ subscriptions = ts.subscriptions
        /\ passed = [r \in ReqIds |-> 0]
        /\ nextReqId = 0
        /\ held = NothingHeld
        /\ NoParser
        /\ NoIngest
        /\ NoOrders
        /\ NoThreads

\* A market-data message of one record under the request id in use.
HeldAddTrades ==
    /\ updateCount < MaxMessages
    /\ \E symbol \in Symbols, isSnapshot \in BOOLEAN, mdReqId \in SubscribedReqIds :
            Becomes(handleMarketDataMessage(TS, updateCount, symbol, 1, isSnapshot, mdReqId))
    /\ UNCHANGED <<passed, nextReqId, held, threadVars, parserVars, ingestVars, orderVars>>

NextHeld ==
    \/ HeldAddTrades
    \/ DoAddSubscription
    \/ DoRemoveSubscriptionByReqId
    \/ CallGetAllTrades
    \/ CallGetRecentTrades
    \/ CallGetSubscriptionStatus
    \/ CallGetSubscriptionsBySymbol
    \/ WriteToHeld

SpecHeld == InitHeld /\ [][NextHeld]_vars

\* C17: whatever the caller writes to a slice or through a pointer it was handed by
\* GetRecentTrades, GetAllTrades, GetSubscriptionStatus or GetSubscriptionsBySymbol,
\* the four readers return from the store afterwards what they returned before.
C17_ReadsReturnIndependentCopies ==
    \A w \in WritesTo(held) : ReadsOf(StoreAfterWrite(TS, held, w)) = ReadsOf(TS)

\* The caller holds a slice with a live record and a pointer to a subscription
\* that is still registered, and has not written to them yet.
C17_Witness ==
    /\ count > 0
    /\ held.slice = Returned(GetAllTrades(TS))
    /\ \E p \in held.ptrs :
            /\ p.key \in DOMAIN subscriptions
            /\ p.val = subscriptions[p.key]

(***************************************************************************)
(* Goroutines calling one store concurrently, as in                       *)
(* TestTradeStore_ConcurrentReadWriteSafety: each writer makes            *)
(* opsPerGoroutine AddTrades calls, each reader opsPerGoroutine rounds of *)
(* GetRecentTrades and GetAllTrades.  A call is a sequence of steps: the  *)
(* lock, the statements of the body one at a time, the unlock.  ts.mu is  *)
(* a sync.RWMutex: Lock waits for the writer and the readers holding it,  *)
(* RLock for the writer holding it.                                       *)
(***************************************************************************)

\* Calls per writer, and rounds per reader.
opsPerGoroutine == 2

\* Records in the batch of one AddTrades call.
BatchLen == 2

\* "req-" + strconv.Itoa(id)
ReqIdOfWriter(w) == "req-" \o ToString(w)

\* The Price marking the k-th record of the j-th call of writer w.
PriceOf(w, j, k) == w * 100 + j * 10 + k

\* The batch of the j-th call (from 0) of writer w.
WriterBatch(w, j) == [k \in 1..BatchLen |-> [ZeroTrade EXCEPT !.Price = PriceOf(w, j, k)]]

\* Lock() returns while a writer holds the lock.
CanLock_IgnoresWriters(m) == m.readers = {}

\* ts.mu.Lock() can return.
CanLock(m) == m.writer = 0 /\ m.readers = {}

WLockMu(m, t) == [m EXCEPT !.writer = t]

\* Unlock() that leaves the lock held.
WUnlockMu_KeepsHeld(m) == m

\* ts.mu.Unlock()
WUnlockMu(m) == [m EXCEPT !.writer = 0]

\* RLock() returns while a writer holds the lock.
CanRLock_IgnoresWriter(m) == TRUE

\* ts.mu.RLock() can return.
CanRLock(m) == m.writer = 0

RLockMu(m, t) == [m EXCEPT !.readers = @ \cup {t}]

RUnlockMu(m, t) == [m EXCEPT !.readers = @ \ {t}]

\* The write with "writeIdx := ts.count % ts.maxSize", which forgets head.
WriteSlot_IgnoresHead(ts, trade) ==
    [ts EXCEPT !.trades[ts.count % ts.maxSize] = trade]

\* ts.trades[writeIdx] = trade
WriteSlot(ts, trade) ==
    [ts EXCEPT !.trades[(ts.head + ts.count) % ts.maxSize] = trade]

\* The rest of the loop body: count or head, then updateCount.
MoveOn(ts) ==
    LET moved == IF ts.count < ts.maxSize
                    THEN [ts EXCEPT !.count = @ + 1]
                    ELSE [ts EXCEPT !.head = (@ + 1) % ts.maxSize]
    IN  [moved EXCEPT !.updateCount = @ + 1]

InitThreads ==
    LET ts == NewTradeStore(MaxCap + 1)
    IN  /\ maxSize = ts.maxSize
        /\ trades = ts.trades
        /\ head = ts.head
        /\ count = ts.count
        /\ updateCount = ts.updateCount
        /\ subscriptions = ts.subscriptions
        /\ passed = [r \in ReqIds |-> 0]
        /\ nextReqId = 0
        /\ held = NothingHeld
        /\ NoParser
        /\ NoIngest
        /\ NoOrders
        /\ pc = [t \in Threads |-> IF t \in Writers THEN "Lock" ELSE "RLock"]
        /\ calls = [t \in Threads |-> 0]
        /\ pos = [t \in Threads |-> 0]
        /\ mu = Unlocked
        /\ seen = [t \in Threads |-> NilSlice]

WLock(t) ==
    /\ pc[t] = "Lock"
    /\ CanLock(mu)
    /\ mu' = WLockMu(mu, t)
    /\ pc' = [pc EXCEPT ![t] = "Touch"]
    /\ UNCHANGED <<storeVars, passed, nextReqId, held, calls, pos, seen, parserVars, ingestVars, orderVars>>

WTouch(t) ==
    /\ pc[t] = "Touch"
    /\ Becomes(TouchSubscription(TS, BatchLen, FALSE, ReqIdOfWriter(t)))
    /\ pos' = [pos EXCEPT ![t] = 1]
    /\ pc' = [pc EXCEPT ![t] = "Write"]
    /\ UNCHANGED <<passed, nextReqId, held, calls, mu, seen, parserVars, ingestVars, orderVars>>

WWrite(t) ==
    /\ pc[t] = "Write"
    /\ Becomes(WriteSlot(TS, Stamp(WriterBatch(t, calls[t])[pos[t]], "BTC-USD", FALSE,
                                   ReqIdOfWriter(t))))
    /\ pc' = [pc EXCEPT ![t] = "Move"]
    /\ UNCHANGED <<passed, nextReqId, held, calls, pos, mu, seen, parserVars, ingestVars, orderVars>>

WMove(t) ==
    /\ pc[t] = "Move"
    /\ Becomes(MoveOn(TS))
    /\ IF pos[t] < BatchLen
          THEN /\ pos' = [pos EXCEPT ![t] = @ + 1]
               /\ pc' = [pc EXCEPT ![t] = "Write"]
          ELSE /\ pos' = [pos EXCEPT ![t] = 0]
               /\ pc' = [pc EXCEPT ![t] = "Unlock"]
    /\ UNCHANGED <<passed, nextReqId, held, calls, mu, seen, parserVars, ingestVars, orderVars>>

WUnlock(t) ==
    /\ pc[t] = "Unlock"
    /\ mu' = WUnlockMu(mu)
    /\ calls' = [calls EXCEPT ![t] = @ + 1]
    /\ pc' = [pc EXCEPT ![t] = IF calls[t] + 1 < opsPerGoroutine THEN "Lock" ELSE "Done"]
    /\ UNCHANGED <<storeVars, passed, nextReqId, held, pos, seen, parserVars, ingestVars, orderVars>>

\* What the call a reader is in returns from the store: GetRecentTrades first,
\* GetAllTrades second in each round.
ReaderCall(t, ts) ==
    IF calls[t] % 2 = 0 THEN GetRecentTrades(ts, "BTC-USD", MaxLimit) ELSE GetAllTrades(ts)

RRLock(t) ==
    /\ pc[t] = "RLock"
    /\ CanRLock(mu)
    /\ mu' = RLockMu(mu, t)
    /\ pc' = [pc EXCEPT ![t] = "Read"]
    /\ UNCHANGED <<storeVars, passed, nextReqId, held, calls, pos, seen, parserVars, ingestVars, orderVars>>

RRead(t) ==
    /\ pc[t] = "Read"
    /\ seen' = [seen EXCEPT ![t] = ReaderCall(t, TS)]
    /\ pc' = [pc EXCEPT ![t] = "RUnlock"]
    /\ UNCHANGED <<storeVars, passed, nextReqId, held, calls, pos, mu, parserVars, ingestVars, orderVars>>

RRUnlock(t) ==
    /\ pc[t] = "RUnlock"
    /\ mu' = RUnlockMu(mu, t)
    /\ seen' = [seen EXCEPT ![t] = NilSlice]
    /\ calls' = [calls EXCEPT ![t] = @ + 1]
    /\ pc' = [pc EXCEPT ![t] = IF calls[t] + 1 < 2 * opsPerGoroutine THEN "RLock" ELSE "Done"]
    /\ UNCHANGED <<storeVars, passed, nextReqId, held, pos, parserVars, ingestVars, orderVars>>

ThreadStep(t) ==
    \/ WLock(t)
    \/ WTouch(t)
    \/ WWrite(t)
    \/ WMove(t)
    \/ WUnlock(t)
    \/ RRLock(t)
    \/ RRead(t)
    \/ RRUnlock(t)

NextThreads ==
    \/ \E t \in Writers : WLock(t)
    \/ \E t \in Writers : WTouch(t)
    \/ \E t \in Writers : WWrite(t)
    \/ \E t \in Writers : WMove(t)
    \/ \E t \in Writers : WUnlock(t)
    \/ \E t \in Readers : RRLock(t)
    \/ \E t \in Readers : RRead(t)
    \/ \E t \in Readers : RRUnlock(t)

SpecThreads == InitThreads /\ [][NextThreads]_vars

\* Every goroutine that can take a step eventually takes one.
SpecThreadsFair == SpecThreads /\ \A t \in Threads : WF_vars(ThreadStep(t))

AllDone == \A t \in Threads : pc[t] = "Done"

\* The records the writers hand to the store in all.
TotalInserted == Cardinality(Writers) * opsPerGoroutine * BatchLen

\* C18: under fair scheduling all writers and readers complete their calls, and
\* from then on the store holds min(total inserted, C) <= C live records.
C18_AllCompleteWithMinTotalCapacity ==
    <>[](/\ AllDone
         /\ updateCount = TotalInserted
         /\ count = Min(TotalInserted, maxSize)
         /\ count <= maxSize)

\* All goroutines are done and more records were inserted than the store holds.
C18_Witness ==
    /\ AllDone
    /\ TotalInserted > maxSize
    /\ count = maxSize
    /\ \A t \in Writers : calls[t] = opsPerGoroutine
    /\ \A t \in Readers : calls[t] = 2 * opsPerGoroutine

\* A writer is between its Lock and its Unlock.
InAddTrades(w) == pc[w] \in {"Touch", "Write", "Move", "Unlock"}

\* C19: while a reader is inside GetRecentTrades or GetAllTrades no writer is
\* inside AddTrades, no two writers are inside AddTrades together, and the result
\* the reader has computed is what the store holds until the reader returns: a
\* store with every batch either not begun or complete.
C19_AddTradesExcludesReadersAndWriters ==
    /\ \A r \in Readers :
            pc[r] \in {"Read", "RUnlock"} =>
                /\ \A w \in Writers : ~InAddTrades(w)
                /\ updateCount % BatchLen = 0
                /\ pc[r] = "RUnlock" => seen[r] = ReaderCall(r, TS)
    /\ \A w1, w2 \in Writers : (InAddTrades(w1) /\ InAddTrades(w2)) => w1 = w2

\* A reader has read a store with records of a complete batch in it while a
\* writer that has more to insert is waiting for the lock.
C19_Witness ==
    \E r \in Readers, w \in Writers :
        /\ pc[r] = "RUnlock"
        /\ ~seen[r].isNil
        /\ pc[w] = "Lock"
        /\ calls[w] > 0

\* The call and the place in its batch a stored record carries in its Price.
CallOf(trade) == (trade.Price % 100) \div 10

PlaceOf(trade) == trade.Price % 10

\* The records of one batch in s stand in the order of the batch, next to each other.
BatchesContiguous(s) ==
    \A p, q \in 1..Len(s) :
        (/\ p < q
         /\ s[p].MdReqId = s[q].MdReqId
         /\ CallOf(s[p]) = CallOf(s[q])) =>
            PlaceOf(s[q]) - PlaceOf(s[p]) = q - p

\* C20: whenever GetAllTrades can run (no writer holds the lock), the live records
\* of each batch stand in it in the order of the batch and as one contiguous run,
\* with no record of another producer's batch between them.
C20_BatchesContiguousInOrder ==
    mu.writer = 0 => BatchesContiguous(GetAllTrades(TS).items)

\* A full store with records of both writers, one batch cut by eviction.
C20_Witness ==
    /\ mu.writer = 0
    /\ count = maxSize
    /\ {trades[i].MdReqId : i \in LiveSlots} = {ReqIdOfWriter(w) : w \in Writers}
    /\ PlaceOf(trades[head]) > 1

\* C22: a market-data message for which extractTrades returns no record (zero
\* entries declared, or no boundary found) leaves the ring buffer and the
\* subscription registry, counters and snapshot-received flag, as they were.
C22_EmptyBatchLeavesStoreUnchanged ==
    \A m \in MessageArgs : m.n = 0 => AfterMessage(m) = TS

\* C34: every write of AddTrades goes to the slot (head + count) mod C, which
\* holds no live record while count < C and is the slot of the oldest live
\* record, head, when count = C; no other slot changes, so no live record but
\* the oldest is ever overwritten.
C34_WriteSlotFreeOrOldest ==
    [][\A i \in DOMAIN trades :
          trades'[i] # trades[i] =>
              /\ i = (head + count) % maxSize
              /\ IF count < maxSize THEN i \notin LiveSlots
                                    ELSE count = maxSize /\ i = head]_vars

\* A writer has just overwritten the oldest record of a full buffer whose head
\* has moved off slot 0.
C34_Witness ==
    \E t \in Writers :
        /\ pc[t] = "Move"
        /\ count = maxSize
        /\ head # 0
        /\ trades[head] = Stamp(WriterBatch(t, calls[t])[pos[t]], "BTC-USD", FALSE,
                                ReqIdOfWriter(t))

\* The ring buffer of a store.
Ring(ts) == [trades |-> ts.trades, head |-> ts.head, count |-> ts.count]

\* C35: only AddTrades changes the ring buffer, and it never shrinks it:
\* AddSubscription, RemoveSubscription and RemoveSubscriptionByReqId leave head,
\* count and every slot as they were, so GetAllTrades returns after a removal
\* what it returned before, records of the removed request id included, and
\* count after AddTrades is not below count before.
C35_OnlyAddTradesChangesRing ==
    /\ \A symbol \in Symbols, subscriptionType \in SubscriptionTypes, mdReqId \in ReqIds :
            Ring(AddSubscription(TS, symbol, subscriptionType, mdReqId)) = Ring(TS)
    /\ \A symbol \in Symbols :
            /\ Ring(RemoveSubscription(TS, symbol)) = Ring(TS)
            /\ GetAllTrades(RemoveSubscription(TS, symbol)) = GetAllTrades(TS)
    /\ \A reqId \in ReqIds :
            /\ Ring(RemoveSubscriptionByReqId(TS, reqId)) = Ring(TS)
            /\ GetAllTrades(RemoveSubscriptionByReqId(TS, reqId)) = GetAllTrades(TS)
    /\ \A a \in AddTradesArgs : After(a).count >= count

\* A full buffer that has wrapped holds a record counted under req-1, and req-1
\* is no longer registered.
C35_Witness ==
    /\ maxSize >= 2
    /\ count = maxSize
    /\ head # 0
    /\ subscriptions = <<>>
    /\ \E i \in LiveSlots : trades[i].MdReqId = "req-1"

\* The entry AddSubscription makes.
NewSubscription(symbol, subscriptionType, mdReqId) ==
    [Symbol |-> symbol, SubscriptionType |-> subscriptionType, MdReqId |-> mdReqId,
     Active |-> TRUE, TotalUpdates |-> 0, SnapshotReceived |-> FALSE]

\* C38: the registry holds one entry per request id at most (the entry under a
\* key carries that key as its request id), and AddSubscription under any id,
\* registered or not, leaves under that id the new entry alone, with the symbol
\* of the call, TotalUpdates 0 and SnapshotReceived false, and the entries of
\* the other ids as they were.
C38_OneSubscriptionPerReqId ==
    /\ \A r \in DOMAIN subscriptions : subscriptions[r].MdReqId = r
    /\ \A symbol \in Symbols, subscriptionType \in SubscriptionTypes, mdReqId \in ReqIds :
            LET post == AddSubscription(TS, symbol, subscriptionType, mdReqId).subscriptions
            IN  /\ DOMAIN post = (DOMAIN subscriptions) \cup {mdReqId}
                /\ post[mdReqId] = NewSubscription(symbol, subscriptionType, mdReqId)
                /\ \A r \in (DOMAIN subscriptions) \ {mdReqId} : post[r] = subscriptions[r]

\* Both ids are registered, and req-1 has counted records and seen its snapshot:
\* registering req-1 again replaces an entry that differs from a new one.
C38_Witness ==
    /\ DOMAIN subscriptions = ReqIds
    /\ subscriptions["req-1"].TotalUpdates > 0
    /\ subscriptions["req-1"].SnapshotReceived
    /\ subscriptions["req-1"].Symbol = "ETH-USD"

\* C39: AddTrades with an empty batch leaves the whole store as it was, ring
\* buffer and every subscription's bookkeeping, whatever symbol, isSnapshot and
\* request id it is called with.
C39_EmptyAddTradesLeavesStoreUnchanged ==
    \A a \in AddTradesArgsOfLen(0) : After(a) = TS

(***************************************************************************)
(* The parser of market-data messages (extractTradesImproved and the      *)
(* functions under it).  A Go string is the sequence of its bytes, each   *)
(* byte a one-character string; SOH, the byte 0x01, is written "|".  Go   *)
(* offsets count from 0: s[a:b] is Slice(s, a, b).                         *)
(***************************************************************************)

SOH == "|"

\* s[a:b]
Slice(s, a, b) == SubSeq(s, a + 1, b)

\* strings.Index(s, substr), without an occurrence -1.
Index(s, substr) ==
    LET found == {i \in 0..(Len(s) - Len(substr)) : Slice(s, i, i + Len(substr)) = substr}
    IN  IF found = {} THEN -1 ELSE CHOOSE i \in found : \A j \in found : i <= j

\* strings.IndexByte(s, c)
IndexByte(s, c) == Index(s, <<c>>)

RECURSIVE Count(_, _)
\* strings.Count(s, substr): the non-overlapping occurrences (substr is not empty).
Count(s, substr) ==
    LET i == Index(s, substr)
    IN  IF i = -1 THEN 0 ELSE 1 + Count(Slice(s, i + Len(substr), Len(s)), substr)

\* One decimal digit as a byte.
Digit(d) == ToString(d)

RECURSIVE Itoa(_)
\* strconv.Itoa(n), n >= 0.
Itoa(n) == IF n < 10 THEN <<Digit(n)>> ELSE Itoa(n \div 10) \o <<Digit(n % 10)>>

\* The marker "269=" that opens an entry of the repeating group.
Marker269 == <<"2", "6", "9", "=">>

RECURSIVE FindLoop(_, _, _)
\* The for-loop of findEntryBoundaries.
FindLoop(rawMsg, searchFrom, entryStarts) ==
    LET p == Index(Slice(rawMsg, searchFrom, Len(rawMsg)), Marker269)
    IN  IF p = -1
           THEN entryStarts
           ELSE FindLoop(rawMsg, searchFrom + p + 4, Append(entryStarts, searchFrom + p))

findEntryBoundaries(rawMsg) ==
    IF Count(rawMsg, Marker269) = 0
       THEN NilSlice
       ELSE MakeSlice(FindLoop(rawMsg, 0, <<>>))

\* The end of the segment that starts at the end of the message.
getEntryEndPos_NextOrStart(entryStarts, currentIndex, msgLen) ==
    IF currentIndex < Len(entryStarts) - 1
       THEN entryStarts[currentIndex + 2]
       ELSE entryStarts[currentIndex + 1]

\* currentIndex counts from 0, as in the code.
getEntryEndPos(entryStarts, currentIndex, msgLen) ==
    IF currentIndex < Len(entryStarts) - 1
       THEN entryStarts[currentIndex + 2]
       ELSE msgLen

getAggressorSideDesc(side) ==
    IF side = <<"1">> THEN <<"B", "u", "y">>
    ELSE IF side = <<"2">> THEN <<"S", "e", "l", "l">>
    ELSE side

\* The Trade literal at the top of parseTradeFromSegmentFast (Timestamp aside).
NewParsedTrade(symbol, mdReqId, isSnapshot, seqNum) ==
    [Symbol |-> symbol, MdReqId |-> mdReqId, IsSnapshot |-> isSnapshot,
     IsUpdate |-> ~isSnapshot, SeqNum |-> seqNum, EntryType |-> <<>>, Price |-> <<>>,
     Size |-> <<>>, Time |-> <<>>, Position |-> <<>>, Aggressor |-> <<>>]

\* The switch on the tag with the aggressor code stored as it came.
AssignField_RawAggressor(trade, tag, value) ==
    IF tag = <<"2", "6", "9">> THEN [trade EXCEPT !.EntryType = value]
    ELSE IF tag = <<"2", "7", "0">> THEN [trade EXCEPT !.Price = value]
    ELSE IF tag = <<"2", "7", "1">> THEN [trade EXCEPT !.Size = value]
    ELSE IF tag = <<"2", "7", "3">> THEN [trade EXCEPT !.Time = value]
    ELSE IF tag = <<"2", "9", "0">> THEN [trade EXCEPT !.Position = value]
    ELSE IF tag = <<"2", "4", "4", "6">> THEN [trade EXCEPT !.Aggressor = value]
    ELSE trade

\* switch tag { case "269": ... }
AssignField(trade, tag, value) ==
    IF tag = <<"2", "6", "9">> THEN [trade EXCEPT !.EntryType = value]
    ELSE IF tag = <<"2", "7", "0">> THEN [trade EXCEPT !.Price = value]
    ELSE IF tag = <<"2", "7", "1">> THEN [trade EXCEPT !.Size = value]
    ELSE IF tag = <<"2", "7", "3">> THEN [trade EXCEPT !.Time = value]
    ELSE IF tag = <<"2", "9", "0">> THEN [trade EXCEPT !.Position = value]
    ELSE IF tag = <<"2", "4", "4", "6">>
            THEN [trade EXCEPT !.Aggressor = getAggressorSideDesc(value)]
    ELSE trade

RECURSIVE ParseLoop(_, _, _)
\* for pos < segLen { ... }
ParseLoop(segment, at, trade) ==
    IF at >= Len(segment)
       THEN trade
       ELSE LET eq == IndexByte(Slice(segment, at, Len(segment)), "=")
            IN  IF eq = -1
                   THEN trade
                   ELSE LET eqPos == eq + at
                            tag == Slice(segment, at, eqPos)
                            valueStart == eqPos + 1
                            sohPos == IndexByte(Slice(segment, valueStart, Len(segment)), SOH)
                            value == IF sohPos = -1
                                        THEN Slice(segment, valueStart, Len(segment))
                                        ELSE Slice(segment, valueStart, valueStart + sohPos)
                            nextPos == IF sohPos = -1
                                          THEN Len(segment)
                                          ELSE valueStart + sohPos + 1
                        IN  ParseLoop(segment, nextPos, AssignField(trade, tag, value))

\* The default position given to every entry without one.
DefaultPosition_AnyEntryType(trade, entryIndex) ==
    IF trade.Position = <<>>
       THEN [trade EXCEPT !.Position = Itoa(entryIndex + 1)]
       ELSE trade

\* if trade.Position == "" && (trade.EntryType == "0" || trade.EntryType == "1")
DefaultPosition(trade, entryIndex) ==
    IF trade.Position = <<>> /\ (trade.EntryType = <<"0">> \/ trade.EntryType = <<"1">>)
       THEN [trade EXCEPT !.Position = Itoa(entryIndex + 1)]
       ELSE trade

parseTradeFromSegmentFast(segment, symbol, mdReqId, isSnapshot, seqNum, entryIndex) ==
    DefaultPosition(ParseLoop(segment, 0, NewParsedTrade(symbol, mdReqId, isSnapshot, seqNum)),
                    entryIndex)

extractSingleFieldValue(fixSegment, tagPrefix) ==
    IF Index(fixSegment, tagPrefix) = -1
       THEN <<>>
       ELSE LET start == Index(fixSegment, tagPrefix) + Len(tagPrefix)
                end == Index(Slice(fixSegment, start, Len(fixSegment)), <<SOH>>)
            IN  IF end = -1
                   THEN Slice(fixSegment, start, Len(fixSegment))
                   ELSE Slice(fixSegment, start, start + end)

\* "if v := extractSingleFieldValue(segment, tagPrefix); v != "" { trade.X = v }"
AssignIfFound(trade, field, segment, tagPrefix) ==
    LET v == extractSingleFieldValue(segment, tagPrefix)
    IN  IF v # <<>> THEN [trade EXCEPT ![field] = v] ELSE trade

\* The multi-pass parser kept for reference: one lookup for each known tag.
parseTradeFromSegment(segment, symbol, mdReqId, isSnapshot, seqNum, entryIndex) ==
    LET t0 == NewParsedTrade(symbol, mdReqId, isSnapshot, seqNum)
        t1 == AssignIfFound(t0, "EntryType", segment, <<"2", "6", "9", "=">>)
        t2 == AssignIfFound(t1, "Price", segment, <<"2", "7", "0", "=">>)
        t3 == AssignIfFound(t2, "Size", segment, <<"2", "7", "1", "=">>)
        t4 == AssignIfFound(t3, "Time", segment, <<"2", "7", "3", "=">>)
        position == extractSingleFieldValue(segment, <<"2", "9", "0", "=">>)
        t5 == IF position # <<>>
                 THEN [t4 EXCEPT !.Position = position]
                 ELSE IF t4.EntryType = <<"0">> \/ t4.EntryType = <<"1">>
                         THEN [t4 EXCEPT !.Position = Itoa(entryIndex + 1)]
                         ELSE t4
        aggressor == extractSingleFieldValue(segment, <<"2", "4", "4", "6", "=">>)
    IN  IF aggressor # <<>>
           THEN [t5 EXCEPT !.Aggressor = getAggressorSideDesc(aggressor)]
           ELSE t5

RECURSIVE ExtractLoop(_, _, _, _, _, _, _, _)
\* for i, startPos := range entryStarts { ... }, i counting from 0.
ExtractLoop(rawMsg, entryStarts, i, parsed, symbol, mdReqId, isSnapshot, seqNum) ==
    IF i >= Len(entryStarts)
       THEN parsed
       ELSE LET startPos == entryStarts[i + 1]
                endPos == getEntryEndPos(entryStarts, i, Len(rawMsg))
                entrySegment == Slice(rawMsg, startPos, endPos)
            IN  ExtractLoop(rawMsg, entryStarts, i + 1,
                            Append(parsed, parseTradeFromSegmentFast(entrySegment, symbol,
                                               mdReqId, isSnapshot, seqNum, i)),
                            symbol, mdReqId, isSnapshot, seqNum)

\* The pipeline that goes on to the boundary locator when tag 268 is missing.
extractTradesImproved_NoCountCheck(msg, symbol, mdReqId, isSnapshot, seqNum) ==
    IF msg.NoMdEntries = <<"0">>
       THEN [trades |-> NilSlice, boundaryCalls |-> 0]
       ELSE LET entryStarts == findEntryBoundaries(msg.text)
            IN  IF Len(entryStarts.items) = 0
                   THEN [trades |-> NilSlice, boundaryCalls |-> 1]
                   ELSE [trades |-> MakeSlice(ExtractLoop(msg.text, entryStarts.items, 0, <<>>,
                                                          symbol, mdReqId, isSnapshot, seqNum)),
                         boundaryCalls |-> 1]

\* msg.NoMdEntries is utils.GetString(msg, 268) and msg.text is msg.String().  The
\* result is the returned slice together with the number of calls made to
\* findEntryBoundaries on the way.
extractTradesImproved(msg, symbol, mdReqId, isSnapshot, seqNum) ==
    IF msg.NoMdEntries = <<>> \/ msg.NoMdEntries = <<"0">>
       THEN [trades |-> NilSlice, boundaryCalls |-> 0]
       ELSE LET entryStarts == findEntryBoundaries(msg.text)
            IN  IF Len(entryStarts.items) = 0
                   THEN [trades |-> NilSlice, boundaryCalls |-> 1]
                   ELSE [trades |-> MakeSlice(ExtractLoop(msg.text, entryStarts.items, 0, <<>>,
                                                          symbol, mdReqId, isSnapshot, seqNum)),
                         boundaryCalls |-> 1]

(***************************************************************************)
(* SpecParser: the parser's functions applied to market-data messages.    *)
(* A message is a header, up to MaxEntries entries of the repeating group *)
(* and a trailer, every field rendered as TAG=VALUE<SOH>.  The entries    *)
(* carry the tags the parser reads, an empty value, and tags from the     *)
(* user-defined range whose numbers end in 269 and 270.                   *)
(***************************************************************************)

MaxEntries == 2

Field(tag, value) == [tag |-> tag, value |-> value]

T35 == <<"3", "5">>
T268 == <<"2", "6", "8">>
T269 == <<"2", "6", "9">>
T270 == <<"2", "7", "0">>
T271 == <<"2", "7", "1">>
T273 == <<"2", "7", "3">>
T290 == <<"2", "9", "0">>
T2446 == <<"2", "4", "4", "6">>
T5269 == <<"5", "2", "6", "9">>
T5270 == <<"5", "2", "7", "0">>
T10 == <<"1", "0">>

EntryTypes == {<<"0">>, <<"1">>, <<"2">>}

\* The fields that follow tag 269 in an entry.
EntryBodies ==
    { <<>>,
      <<Field(T270, <<"5">>), Field(T2446, <<"1">>)>>,
      <<Field(T290, <<"7">>), Field(T2446, <<"2">>)>>,
      <<Field(T5269, <<"1">>)>>,
      <<Field(T5270, <<"9">>), Field(T270, <<"5">>)>>,
      <<Field(T290, <<>>), Field(T271, <<"3">>), Field(T273, <<"8">>), Field(T2446, <<"3">>)>> }

Entries == {<<Field(T269, t)>> \o b : t \in EntryTypes, b \in EntryBodies}

Groups == UNION {[1..k -> Entries] : k \in 0..MaxEntries}

RECURSIVE Render(_)
\* The wire text of a sequence of fields.
Render(fields) ==
    IF fields = <<>>
       THEN <<>>
       ELSE fields[1].tag \o <<"=">> \o fields[1].value \o <<SOH>> \o Render(Tail(fields))

RECURSIVE RenderGroup(_)
RenderGroup(group) ==
    IF group = <<>> THEN <<>> ELSE Render(group[1]) \o RenderGroup(Tail(group))

\* The fields before the repeating group; n is the value of tag 268, empty when
\* the message has none.
Header(n) ==
    <<Field(T35, <<"W">>)>> \o (IF n = <<>> THEN <<>> ELSE <<Field(T268, n)>>)

Trailer == <<Field(T10, <<"0">>)>>

\* The message with the group, declaring n entries.
Message(group, n) ==
    [NoMdEntries |-> n,
     text |-> Render(Header(n)) \o RenderGroup(group) \o Render(Trailer),
     group |-> group]

Messages == {Message(g, n) : g \in Groups, n \in {<<>>, <<"0">>}}
            \cup {Message(g, Itoa(Len(g))) : g \in Groups}

\* The segment of entry i of the message, with or without its last delimiter.
SegmentOf(msg, i, delimited) ==
    LET segment == Render(msg.group[i])
    IN  IF delimited THEN segment ELSE Slice(segment, 0, Len(segment) - 1)

TagPrefixes == {T \o <<"=">> : T \in {T269, T270, T290, T2446}}

InitParser ==
    LET ts == NewTradeStore(1)
    IN  /\ maxSize = ts.maxSize
        /\ trades = ts.trades
        /\ head = ts.head
        /\ count = ts.count
        /\ updateCount = ts.updateCount
        /\ subscriptions = ts.subscriptions
        /\ passed = [r \in ReqIds |-> 0]
        /\ nextReqId = 0
        /\ held = NothingHeld
        /\ NoThreads
        /\ NoIngest
        /\ NoOrders
        /\ inMsg \in Messages
        /\ outVal = [fn |-> "", val |-> <<>>, arg |-> <<>>]

\* What an application of a parser function leaves alone.
parserFrame == <<storeVars, passed, nextReqId, held, threadVars, inMsg, ingestVars, orderVars>>

\* A behaviour draws a message and applies one function to it: outVal keeps the
\* function, its arguments beside the message, and what it returned.
FindEntryBoundaries ==
    /\ outVal.fn = ""
    /\ outVal' = [fn |-> "findEntryBoundaries", arg |-> <<>>,
                  val |-> findEntryBoundaries(inMsg.text)]
    /\ UNCHANGED parserFrame

ExtractTradesImproved ==
    /\ outVal.fn = ""
    /\ \E isSnapshot \in BOOLEAN :
           outVal' = [fn |-> "extractTradesImproved", arg |-> [isSnapshot |-> isSnapshot],
                      val |-> extractTradesImproved(inMsg, "BTC-USD", "md_1", isSnapshot, 1)]
    /\ UNCHANGED parserFrame

ParseTradeFromSegmentFast ==
    /\ outVal.fn = ""
    /\ \E i \in 1..Len(inMsg.group), delimited, isSnapshot \in BOOLEAN :
           outVal' = [fn |-> "parseTradeFromSegmentFast",
                      arg |-> [entry |-> i, delimited |-> delimited, isSnapshot |-> isSnapshot],
                      val |-> parseTradeFromSegmentFast(SegmentOf(inMsg, i, delimited),
                                                        "BTC-USD", "md_1", isSnapshot, 1, i - 1)]
    /\ UNCHANGED parserFrame

ExtractSingleFieldValue ==
    /\ outVal.fn = ""
    /\ \E i \in 1..Len(inMsg.group), delimited \in BOOLEAN, tagPrefix \in TagPrefixes :
           outVal' = [fn |-> "extractSingleFieldValue",
                      arg |-> [entry |-> i, delimited |-> delimited, tagPrefix |-> tagPrefix],
                      val |-> extractSingleFieldValue(SegmentOf(inMsg, i, delimited), tagPrefix)]
    /\ UNCHANGED parserFrame

NextParser ==
    \/ FindEntryBoundaries
    \/ ExtractTradesImproved
    \/ ParseTradeFromSegmentFast
    \/ ExtractSingleFieldValue

SpecParser == InitParser /\ [][NextParser]_vars

\* The offset in the text of the message at which each entry of its group begins.
EntryOffsets(msg) ==
    [i \in 1..Len(msg.group) |->
        Len(Render(Header(msg.NoMdEntries))) + Len(RenderGroup(SubSeq(msg.group, 1, i - 1)))]

\* C25: for a message whose repeating group holds k entries, findEntryBoundaries
\* returns exactly the k offsets at which the entries' "269=" tags begin, in
\* increasing order, whatever other tags the entries carry, and the absent
\* result for a message without an entry.
C25_OneOffsetPerEntry ==
    outVal.fn = "findEntryBoundaries" =>
        /\ outVal.val.items = EntryOffsets(inMsg)
        /\ Len(inMsg.group) = 0 => outVal.val.isNil

\* The message declares entries: its tag 268 is there and is not "0".
DeclaresEntries(msg) == msg.NoMdEntries # <<>> /\ msg.NoMdEntries # <<"0">>

\* C26: for a message that declares entries, the pipeline returns one record per
\* boundary offset, in message order; record i is the parse, under index i, of
\* the text from offset i up to the next offset, the last one up to the end of
\* the message, so the segments are disjoint and start at the first marker.
C26_OneRecordPerBoundarySegment ==
    (outVal.fn = "extractTradesImproved" /\ DeclaresEntries(inMsg)) =>
        LET offsets == findEntryBoundaries(inMsg.text).items
            n == Len(offsets)
            segment(i) == Slice(inMsg.text, offsets[i],
                                IF i < n THEN offsets[i + 1] ELSE Len(inMsg.text))
        IN  /\ outVal.val.trades.items =
                   [i \in 1..n |-> parseTradeFromSegmentFast(segment(i), "BTC-USD", "md_1",
                                                             outVal.arg.isSnapshot, 1, i - 1)]
            /\ \A i \in 1..n : offsets[i] < (IF i < n THEN offsets[i + 1] ELSE Len(inMsg.text))

\* Two records came out of a two-entry message, the last from a segment that
\* runs to the end of the message.
C26_Witness ==
    /\ outVal.fn = "extractTradesImproved"
    /\ DeclaresEntries(inMsg)
    /\ Len(inMsg.group) = 2
    /\ Len(outVal.val.trades.items) = 2
    /\ outVal.val.trades.items[1].EntryType = <<"0">>
    /\ outVal.val.trades.items[2].EntryType = <<"2">>
    /\ outVal.val.trades.items[2].Price = <<"5">>

FieldsWithTag(fields, tag) == SelectSeq(fields, LAMBDA f : f.tag = tag)

\* The value of the first field with the tag, empty without such a field.
FirstValue(fields, tag) ==
    IF FieldsWithTag(fields, tag) = <<>> THEN <<>> ELSE FieldsWithTag(fields, tag)[1].value

\* C28: for a segment and a tag prefix "T=", extractSingleFieldValue returns the
\* value of the first field of the segment whose tag is T, whether or not a
\* delimiter ends the segment, and the empty result without such a field.
C28_ValueOfFirstFieldWithTag ==
    outVal.fn = "extractSingleFieldValue" =>
        outVal.val = FirstValue(inMsg.group[outVal.arg.entry],
                                Slice(outVal.arg.tagPrefix, 0, Len(outVal.arg.tagPrefix) - 1))

\* C29: parseTradeFromSegmentFast on a segment of TAG=VALUE<SOH> fields sets
\* entry type, price, size, entry time to the values of tags 269, 270, 271, 273,
\* position to a non-empty value of tag 290, aggressor to the value of tag 2446
\* with "1" as "Buy", "2" as "Sell" and any other code as itself, leaves the
\* fields of absent tags empty and ignores every other tag.
C29_FieldsFromTheirTags ==
    outVal.fn = "parseTradeFromSegmentFast" =>
        LET fields == inMsg.group[outVal.arg.entry]
            side == FirstValue(fields, T2446)
        IN  /\ outVal.val.EntryType = FirstValue(fields, T269)
            /\ outVal.val.Price = FirstValue(fields, T270)
            /\ outVal.val.Size = FirstValue(fields, T271)
            /\ outVal.val.Time = FirstValue(fields, T273)
            /\ FirstValue(fields, T290) # <<>> => outVal.val.Position = FirstValue(fields, T290)
            /\ outVal.val.Aggressor = (IF side = <<"1">> THEN <<"B", "u", "y">>
                                       ELSE IF side = <<"2">> THEN <<"S", "e", "l", "l">>
                                       ELSE side)
            /\ outVal.val.Symbol = "BTC-USD"
            /\ outVal.val.MdReqId = "md_1"
            /\ outVal.val.IsSnapshot = outVal.arg.isSnapshot
            /\ outVal.val.IsUpdate = ~outVal.arg.isSnapshot

\* A segment with tags 5270, 270 and no 2446 parsed, and one with aggressor "1".
C29_Witness ==
    /\ outVal.fn = "parseTradeFromSegmentFast"
    /\ Len(inMsg.group) = 2
    /\ outVal.arg.entry = 2
    /\ FirstValue(inMsg.group[1], T5270) = <<"9">>
    /\ FirstValue(inMsg.group[2], T2446) = <<"1">>
    /\ outVal.val.Aggressor = <<"B", "u", "y">>
    /\ outVal.val.Price = <<"5">>
    /\ outVal.val.Size = <<>>

\* C30: a parsed entry gets the position (its index in the batch) + 1 exactly
\* when its entry type is "0" or "1" and its segment has no non-empty tag 290; a
\* value of tag 290 is always kept, and an entry of another type without tag
\* 290 keeps an empty position.
C30_DefaultPositionForBidAndOffer ==
    outVal.fn = "parseTradeFromSegmentFast" =>
        LET fields == inMsg.group[outVal.arg.entry]
            entryIndex == outVal.arg.entry - 1
        IN  IF FirstValue(fields, T290) # <<>>
               THEN outVal.val.Position = FirstValue(fields, T290)
               ELSE IF FirstValue(fields, T269) \in {<<"0">>, <<"1">>}
                       THEN outVal.val.Position = Itoa(entryIndex + 1)
                       ELSE outVal.val.Position = <<>>

\* The second entry of a batch, an offer with an empty tag 290, got position "2".
C30_Witness ==
    /\ outVal.fn = "parseTradeFromSegmentFast"
    /\ outVal.arg.entry = 2
    /\ FirstValue(inMsg.group[2], T269) = <<"1">>
    /\ FieldsWithTag(inMsg.group[2], T290) # <<>>
    /\ FirstValue(inMsg.group[2], T290) = <<>>
    /\ outVal.val.Position = <<"2">>

\* C37: on every segment, with every snapshot flag and entry index, the
\* single-pass parser parseTradeFromSegmentFast returns the record the multi-pass
\* parser parseTradeFromSegment returns (the records carry no arrival time),
\* segments with empty values and with tags that end in a known tag included.
C37_FastParserAgreesWithReference ==
    outVal.fn = "parseTradeFromSegmentFast" =>
        outVal.val = parseTradeFromSegment(
                        SegmentOf(inMsg, outVal.arg.entry, outVal.arg.delimited),
                        "BTC-USD", "md_1", outVal.arg.isSnapshot, 1, outVal.arg.entry - 1)

(***************************************************************************)
(* SpecIngest: the goroutine that handles market-data messages            *)
(* (handleMarketDataMessage: parse, AddTrades, storeTradesToDatabase,     *)
(* display) beside the goroutine of the commands, which registers and     *)
(* removes subscriptions.  pc, calls and mu are used as in SpecThreads.   *)
(* inFlight is the message in the handler: the entry types of its         *)
(* records, the index of the next record to persist, whether persistence  *)
(* failed, and the committed rows when it arrived.  dbTx is the open      *)
(* transaction with the rows written in it, dbRows the committed rows.    *)
(* Every call to the database may fail.                                    *)
(***************************************************************************)

IngestGoroutine == 1

CommandGoroutine == 2

\* The entry types with a case in the switch of storeTradesToDatabase.
RecognizedEntryTypes ==
    {<<"0">>, <<"1">>, <<"2">>, <<"4">>, <<"5">>, <<"7">>, <<"8">>, <<"B">>}

MdEntryTypeBid == <<"0">>

MdEntryTypeTrade == <<"2">>

\* The entry types of the records of the messages that arrive.
IngestBatches ==
    { <<>>,
      <<MdEntryTypeBid, MdEntryTypeTrade>>,
      <<MdEntryTypeTrade, <<"9">>>>,
      <<<<"9">>, MdEntryTypeBid>> }

NoTx == [open |-> FALSE, rows |-> <<>>]

\* Rollback() that keeps what the transaction wrote.
Rollback_KeepsRows(committed, tx) == committed \o tx.rows

\* The deferred tx.Rollback() of a transaction that was not committed.
Rollback(committed, tx) == committed

\* tx.Commit() that succeeds.
CommitTx(committed, tx) == committed \o tx.rows

\* A persistence error that ends the program (log.Fatalf for log.Printf).
OnPersistenceError_Fatal == "Exited"

\* Where the handler goes on after the log line of a persistence error: the
\* return of storeTradesToDatabase, back in handleMarketDataMessage.
OnPersistenceError == "Display"

InitIngest ==
    LET ts == NewTradeStore(MaxCap)
    IN  /\ maxSize = ts.maxSize
        /\ trades = ts.trades
        /\ head = ts.head
        /\ count = ts.count
        /\ updateCount = ts.updateCount
        /\ subscriptions = ts.subscriptions
        /\ passed = [r \in ReqIds |-> 0]
        /\ nextReqId = 0
        /\ held = NothingHeld
        /\ NoParser
        /\ NoIngest
        /\ NoOrders
        /\ pc = [t \in Threads |->
                    IF t \in {IngestGoroutine, CommandGoroutine} THEN "Idle" ELSE "Done"]
        /\ calls = [t \in Threads |-> 0]
        /\ pos = [t \in Threads |-> 0]
        /\ mu = Unlocked
        /\ seen = [t \in Threads |-> NilSlice]

\* What no step of SpecIngest changes.
ingestFrame == <<passed, nextReqId, held, pos, seen, parserVars, orderVars>>

\* A message arrives: displayMarketDataReceived and extractTrades.
Receive ==
    /\ pc[IngestGoroutine] = "Idle"
    /\ calls[IngestGoroutine] < MaxMessages
    /\ \E types \in IngestBatches, isSnapshot \in BOOLEAN :
           inFlight' = [trades |-> types, isSnapshot |-> isSnapshot, at |-> 1,
                        failed |-> FALSE, before |-> dbRows]
    /\ pc' = [pc EXCEPT ![IngestGoroutine] = "AddTrades"]
    /\ UNCHANGED <<storeVars, calls, mu, dbRows, dbTx, ingestFrame>>

\* ts.mu.Lock() of AddTrades.
LockForAddTrades ==
    /\ pc[IngestGoroutine] = "AddTrades"
    /\ CanLock(mu)
    /\ mu' = WLockMu(mu, IngestGoroutine)
    /\ pc' = [pc EXCEPT ![IngestGoroutine] = "Inserting"]
    /\ UNCHANGED <<storeVars, calls, ingestVars, ingestFrame>>

\* The body of AddTrades and its deferred Unlock.
AddTradesAndUnlock ==
    /\ pc[IngestGoroutine] = "Inserting"
    /\ Becomes(handleMarketDataMessage(TS, updateCount, "BTC-USD", Len(inFlight.trades),
                                       inFlight.isSnapshot, "req-1"))
    /\ mu' = WUnlockMu(mu)
    /\ pc' = [pc EXCEPT ![IngestGoroutine] = "BeginTransaction"]
    /\ UNCHANGED <<calls, ingestVars, ingestFrame>>

\* a.Db.BeginTransaction()
BeginTransaction ==
    /\ pc[IngestGoroutine] = "BeginTransaction"
    /\ \E ok \in BOOLEAN :
           IF ok
              THEN /\ dbTx' = [open |-> TRUE, rows |-> <<>>]
                   /\ pc' = [pc EXCEPT ![IngestGoroutine] = "Store"]
                   /\ UNCHANGED inFlight
              ELSE /\ inFlight' = [inFlight EXCEPT !.failed = TRUE]
                   /\ pc' = [pc EXCEPT ![IngestGoroutine] = OnPersistenceError]
                   /\ UNCHANGED dbTx
    /\ UNCHANGED <<storeVars, calls, mu, dbRows, ingestFrame>>

\* One turn of the loop over the records: the switch on the entry type and the
\* test of err.
StoreRecord ==
    /\ pc[IngestGoroutine] = "Store"
    /\ inFlight.at <= Len(inFlight.trades)
    /\ LET entryType == inFlight.trades[inFlight.at]
           row == [msg |-> calls[IngestGoroutine] + 1, entry |-> inFlight.at,
                   EntryType |-> entryType]
       IN  \E ok \in BOOLEAN :
              IF entryType \notin RecognizedEntryTypes
                 THEN /\ inFlight' = [inFlight EXCEPT !.at = @ + 1]
                      /\ UNCHANGED <<pc, dbTx, dbRows>>
                 ELSE IF ok
                         THEN /\ dbTx' = [dbTx EXCEPT !.rows = Append(@, row)]
                              /\ inFlight' = [inFlight EXCEPT !.at = @ + 1]
                              /\ UNCHANGED <<pc, dbRows>>
                         ELSE /\ inFlight' = [inFlight EXCEPT !.failed = TRUE]
                              /\ dbRows' = Rollback(dbRows, dbTx)
                              /\ dbTx' = NoTx
                              /\ pc' = [pc EXCEPT ![IngestGoroutine] = OnPersistenceError]
    /\ UNCHANGED <<storeVars, calls, mu, ingestFrame>>

\* tx.Commit() after the loop, then the deferred Rollback.
Commit ==
    /\ pc[IngestGoroutine] = "Store"
    /\ inFlight.at > Len(inFlight.trades)
    /\ \E ok \in BOOLEAN :
           IF ok
              THEN /\ dbRows' = CommitTx(dbRows, dbTx)
                   /\ pc' = [pc EXCEPT ![IngestGoroutine] = "Display"]
                   /\ UNCHANGED inFlight
              ELSE /\ dbRows' = Rollback(dbRows, dbTx)
                   /\ inFlight' = [inFlight EXCEPT !.failed = TRUE]
                   /\ pc' = [pc EXCEPT ![IngestGoroutine] = OnPersistenceError]
    /\ dbTx' = NoTx
    /\ UNCHANGED <<storeVars, calls, mu, ingestFrame>>

\* displaySnapshotTrades / displayIncrementalTrades, and the handler returns.
Display ==
    /\ pc[IngestGoroutine] = "Display"
    /\ pc' = [pc EXCEPT ![IngestGoroutine] = "Idle"]
    /\ calls' = [calls EXCEPT ![IngestGoroutine] = @ + 1]
    /\ inFlight' = [trades |-> <<>>, isSnapshot |-> FALSE, at |-> 0, failed |-> FALSE,
                    before |-> <<>>]
    /\ UNCHANGED <<storeVars, mu, dbRows, dbTx, ingestFrame>>

\* ts.mu.Lock() of AddSubscription or RemoveSubscriptionByReqId.
CommandLock ==
    /\ pc[CommandGoroutine] = "Idle"
    /\ calls[CommandGoroutine] < opsPerGoroutine
    /\ CanLock(mu)
    /\ mu' = WLockMu(mu, CommandGoroutine)
    /\ pc' = [pc EXCEPT ![CommandGoroutine] = "Registry"]
    /\ UNCHANGED <<storeVars, calls, ingestVars, ingestFrame>>

\* The write to ts.subscriptions; log.Printf comes next, before the function
\* returns.
CommandRegistry ==
    /\ pc[CommandGoroutine] = "Registry"
    /\ \E add \in BOOLEAN :
           Becomes(IF add THEN AddSubscription(TS, "BTC-USD", "1", "req-1")
                          ELSE RemoveSubscriptionByReqId(TS, "req-1"))
    /\ pc' = [pc EXCEPT ![CommandGoroutine] = "Log"]
    /\ UNCHANGED <<calls, mu, ingestVars, ingestFrame>>

\* log.Printf, then the deferred Unlock.
CommandLogAndUnlock ==
    /\ pc[CommandGoroutine] = "Log"
    /\ mu' = WUnlockMu(mu)
    /\ pc' = [pc EXCEPT ![CommandGoroutine] = "Idle"]
    /\ calls' = [calls EXCEPT ![CommandGoroutine] = @ + 1]
    /\ UNCHANGED <<storeVars, ingestVars, ingestFrame>>

IngestStep ==
    \/ Receive
    \/ LockForAddTrades
    \/ AddTradesAndUnlock
    \/ BeginTransaction
    \/ StoreRecord
    \/ Commit
    \/ Display

CommandStep ==
    \/ CommandLock
    \/ CommandRegistry
    \/ CommandLogAndUnlock

NextIngest ==
    \/ Receive
    \/ LockForAddTrades
    \/ AddTradesAndUnlock
    \/ BeginTransaction
    \/ StoreRecord
    \/ Commit
    \/ Display
    \/ CommandLock
    \/ CommandRegistry
    \/ CommandLogAndUnlock

SpecIngest == InitIngest /\ [][NextIngest]_vars

\* Each goroutine that can take a step takes one in the end.
SpecIngestFair == SpecIngest /\ WF_vars(IngestStep) /\ WF_vars(CommandStep)

\* The steps at which a goroutine does I/O: the calls to the database, the
\* display of the records and the log line.
IOSteps == {"BeginTransaction", "Store", "Display", "Log"}

\* C21: in every reachable state in which a goroutine is at an I/O step
\* (database persistence or log output), it holds neither the read nor the
\* write lock of the store.
C21_NoLockHeldAcrossIO ==
    \A t \in {IngestGoroutine, CommandGoroutine} :
        pc[t] \in IOSteps => (mu.writer # t /\ t \notin mu.readers)

\* The rows of the records of the message in the handler that have a recognized
\* entry type, in the order of the records.
RowsOfMessage ==
    SelectSeq([i \in 1..Len(inFlight.trades) |->
                  [msg |-> calls[IngestGoroutine] + 1, entry |-> i,
                   EntryType |-> inFlight.trades[i]]],
              LAMBDA row : row.EntryType \in RecognizedEntryTypes)

\* C23: persistence of the batch of one message is all-or-nothing: while the
\* transaction runs no row of the message is committed; when persistence is
\* over, a failure (of a record's store, of the begin or of the commit) has
\* left the committed rows as they were, and otherwise the rows of all records
\* with a recognized entry type were committed together.
C23_BatchPersistedAllOrNothing ==
    /\ pc[IngestGoroutine] \in {"BeginTransaction", "Store"} => dbRows = inFlight.before
    /\ pc[IngestGoroutine] = "Display" =>
           dbRows = inFlight.before \o (IF inFlight.failed THEN <<>> ELSE RowsOfMessage)

\* The second record of a message failed after the first was written in the
\* transaction, with rows of an earlier message committed.
C23_Witness ==
    /\ pc[IngestGoroutine] = "Display"
    /\ inFlight.failed
    /\ inFlight.trades = <<MdEntryTypeBid, MdEntryTypeTrade>>
    /\ inFlight.at = 2
    /\ Len(dbRows) = 1

\* The records of the message in the handler are the newest of the store.
BatchIsInStore ==
    LET n == Len(inFlight.trades)
        newest == LastN(GetAllTrades(TS).items, n)
    IN  /\ updateCount >= n
        /\ PricesOf(newest) = Markers(updateCount - Min(n, maxSize) + 1, updateCount)
        /\ \A i \in 1..Len(newest) :
               newest[i].Symbol = "BTC-USD" /\ newest[i].MdReqId = "req-1"

\* C24: a persistence failure neither touches the in-memory store nor stops
\* ingestion: whenever persistence of a message is under way or over, failed
\* or not, the records of the message are in the ring buffer, and after a
\* failure the handler gets back to where it takes the next message.
C24_PersistenceFailureLeavesStoreAndIngestion ==
    /\ [](pc[IngestGoroutine] \in {"BeginTransaction", "Store", "Display"} => BatchIsInStore)
    /\ (inFlight.failed ~> pc[IngestGoroutine] = "Idle")

\* The first message's records were inserted, its persistence failed, and the
\* handler has taken the second message.
C24_Witness ==
    /\ calls[IngestGoroutine] = 1
    /\ pc[IngestGoroutine] = "AddTrades"
    /\ count = MaxCap
    /\ dbRows = <<>>
    /\ Len(inFlight.trades) = 2

(***************************************************************************)
(* SpecScan: the two scanning loops of the parser, findEntryBoundaries    *)
(* and parseTradeFromSegmentFast, taken turn by turn on arbitrary text:   *)
(* up to MaxPieces pieces put one after another, so that the text may be  *)
(* empty, lack "=", lack SOH, and hold markers that touch or are cut.     *)
(* outVal is the running call: outVal.arg.at is its cursor (searchFrom,   *)
(* pos), outVal.arg.status is "running", "returned", or "panicked" after  *)
(* a slice expression out of range, and outVal.val is the result so far.  *)
(***************************************************************************)

MaxPieces == 3

Pieces ==
    { <<"2", "6", "9", "=">>, <<"2", "6">>, <<"9">>, <<"=">>, <<SOH>>, <<"7">>,
      <<"2", "9", "0", "=">> }

RECURSIVE Concat(_)
Concat(pieces) == IF pieces = <<>> THEN <<>> ELSE pieces[1] \o Concat(Tail(pieces))

Texts == {Concat(pieces) : pieces \in UNION {[1..k -> Pieces] : k \in 0..MaxPieces}}

\* s[a:b] does not panic.
InRange(s, a, b) == 0 <= a /\ a <= b /\ b <= Len(s)

\* The cursor moved one byte too far.
FindAdvance_SkipsFive(searchFrom, p) == searchFrom + p + 5

\* searchFrom += pos + 4
FindAdvance(searchFrom, p) == searchFrom + p + 4

\* One turn of the for-loop of findEntryBoundaries, the return after the break
\* included.
FindTurn(rawMsg, searchFrom, entryStarts) ==
    IF ~InRange(rawMsg, searchFrom, Len(rawMsg))
       THEN [status |-> "panicked", at |-> searchFrom, val |-> MakeSlice(entryStarts)]
       ELSE LET p == Index(Slice(rawMsg, searchFrom, Len(rawMsg)), Marker269)
            IN  IF p = -1
                   THEN [status |-> "returned", at |-> searchFrom,
                         val |-> MakeSlice(entryStarts)]
                   ELSE [status |-> "running", at |-> FindAdvance(searchFrom, p),
                         val |-> MakeSlice(Append(entryStarts, searchFrom + p))]

\* One turn of the for-loop of parseTradeFromSegmentFast, the default position
\* and the return after the loop included.
ParseTurn(segment, at, trade, entryIndex) ==
    LET segLen == Len(segment)
        eq == IndexByte(Slice(segment, at, segLen), "=")
        eqPos == eq + at
        valueStart == eqPos + 1
        sohPos == IndexByte(Slice(segment, valueStart, segLen), SOH)
    IN  IF ~(at < segLen)
           THEN [status |-> "returned", at |-> at, val |-> DefaultPosition(trade, entryIndex)]
        ELSE IF ~InRange(segment, at, segLen)
           THEN [status |-> "panicked", at |-> at, val |-> trade]
        ELSE IF eq = -1
           THEN [status |-> "returned", at |-> at, val |-> DefaultPosition(trade, entryIndex)]
        ELSE IF ~InRange(segment, at, eqPos) \/ ~InRange(segment, valueStart, segLen)
           THEN [status |-> "panicked", at |-> at, val |-> trade]
        ELSE IF sohPos = -1
           THEN [status |-> "running", at |-> segLen,
                 val |-> AssignField(trade, Slice(segment, at, eqPos),
                                     Slice(segment, valueStart, segLen))]
        ELSE IF ~InRange(segment, valueStart, valueStart + sohPos)
           THEN [status |-> "panicked", at |-> at, val |-> trade]
        ELSE [status |-> "running", at |-> valueStart + sohPos + 1,
              val |-> AssignField(trade, Slice(segment, at, eqPos),
                                  Slice(segment, valueStart, valueStart + sohPos))]

\* outVal after a turn that left t.
Running(fn, t) == [fn |-> fn, arg |-> [at |-> t.at, status |-> t.status], val |-> t.val]

InitScan ==
    LET ts == NewTradeStore(1)
    IN  /\ maxSize = ts.maxSize
        /\ trades = ts.trades
        /\ head = ts.head
        /\ count = ts.count
        /\ updateCount = ts.updateCount
        /\ subscriptions = ts.subscriptions
        /\ passed = [r \in ReqIds |-> 0]
        /\ nextReqId = 0
        /\ held = NothingHeld
        /\ NoThreads
        /\ NoIngest
        /\ NoOrders
        /\ \E text \in Texts : inMsg = [NoMdEntries |-> <<>>, text |-> text, group |-> <<>>]
        /\ outVal = [fn |-> "", arg |-> [at |-> 0, status |-> "idle"], val |-> <<>>]

\* The statements of findEntryBoundaries before its loop.
CallFindEntryBoundaries ==
    /\ outVal.fn = ""
    /\ outVal' = IF Count(inMsg.text, Marker269) = 0
                    THEN Running("findEntryBoundaries",
                                 [status |-> "returned", at |-> 0, val |-> NilSlice])
                    ELSE Running("findEntryBoundaries",
                                 [status |-> "running", at |-> 0, val |-> MakeSlice(<<>>)])
    /\ UNCHANGED parserFrame

FindEntryBoundariesTurn ==
    /\ outVal.fn = "findEntryBoundaries"
    /\ outVal.arg.status = "running"
    /\ outVal' = Running("findEntryBoundaries", FindTurn(inMsg.text, outVal.arg.at,
                                                         outVal.val.items))
    /\ UNCHANGED parserFrame

\* The statements of parseTradeFromSegmentFast before its loop.
CallParseTradeFromSegmentFast ==
    /\ outVal.fn = ""
    /\ outVal' = Running("parseTradeFromSegmentFast",
                         [status |-> "running", at |-> 0,
                          val |-> NewParsedTrade("BTC-USD", "md_1", FALSE, 1)])
    /\ UNCHANGED parserFrame

ParseTradeFromSegmentFastTurn ==
    /\ outVal.fn = "parseTradeFromSegmentFast"
    /\ outVal.arg.status = "running"
    /\ outVal' = Running("parseTradeFromSegmentFast",
                         ParseTurn(inMsg.text, outVal.arg.at, outVal.val, 0))
    /\ UNCHANGED parserFrame

NextScan ==
    \/ CallFindEntryBoundaries
    \/ FindEntryBoundariesTurn
    \/ CallParseTradeFromSegmentFast
    \/ ParseTradeFromSegmentFastTurn

SpecScan == InitScan /\ [][NextScan]_vars

\* A call that is running takes its next turn.
SpecScanFair == SpecScan /\ WF_vars(NextScan)

\* C31: the parser never fails: on every text (empty, without "=", without SOH,
\* with unknown tags) the loops of findEntryBoundaries and of
\* parseTradeFromSegmentFast never slice outside the text, every running call
\* returns in the end, and what it returns is the result of the function on
\* the text, a record populated as far as the text allows.
C31_ParserNeverFails ==
    /\ [](outVal.arg.status # "panicked")
    /\ [](outVal.arg.status = "running" => InRange(inMsg.text, outVal.arg.at, Len(inMsg.text)))
    /\ []((outVal.fn = "findEntryBoundaries" /\ outVal.arg.status = "returned")
             => outVal.val = findEntryBoundaries(inMsg.text))
    /\ []((outVal.fn = "parseTradeFromSegmentFast" /\ outVal.arg.status = "returned")
             => outVal.val = parseTradeFromSegmentFast(inMsg.text, "BTC-USD", "md_1", FALSE, 1, 0))
    /\ (outVal.arg.status = "running" ~> outVal.arg.status = "returned")

\* The parse of a text without SOH, with an unknown tag before "=", returned a
\* record with no field set.
C31_Witness ==
    /\ inMsg.text = <<"7", "=", "9">>
    /\ outVal.fn = "parseTradeFromSegmentFast"
    /\ outVal.arg.status = "returned"
    /\ outVal.val.EntryType = <<>>
    /\ outVal.val.Position = <<>>

(***************************************************************************)
(* SpecOrders: the order store (OrderStore) and a caller that keeps the   *)
(* pointers it passed in and the pointers it got back, and writes through *)
(* them.  A method is an operator on the receiver os, the record of heap, *)
(* orders and quotes.  A struct is the function from its field names to   *)
(* their values: strings, and for the time.Time fields the reading of the *)
(* clock, 0 being the zero time.                                           *)
(***************************************************************************)

MaxObjects == 3

MaxOrderCalls == 2

OS == [heap |-> heap, orders |-> orders, quotes |-> quotes]

OrderTimeFields == {"CreatedAt", "UpdatedAt", "ValidUntilTime"}

OrderStringFields ==
    {"ClOrdID", "OrderID", "Symbol", "Side", "OrdType", "TargetStrategy", "TimeInForce",
     "OrdStatus", "ExecType", "OrderQty", "CashOrderQty", "Price", "StopPx", "AvgPx",
     "CumQty", "LeavesQty", "LastPx", "LastShares", "ExecID", "Commission", "FilledAmt",
     "NetAvgPx", "OrdRejReason", "Text", "Account"}

\* Order{}
ZeroOrder ==
    [f \in OrderTimeFields \cup OrderStringFields |-> IF f \in OrderTimeFields THEN 0 ELSE ""]

\* Quote{}
ZeroQuote ==
    [f \in {"ReceivedAt", "ValidUntilTime", "QuoteID", "QuoteReqID", "Account", "Symbol",
            "BidPx", "BidSize", "OfferPx", "OfferSize"} |->
        IF f \in {"ReceivedAt", "ValidUntilTime"} THEN 0 ELSE ""]

\* ExecutionReport{}
ZeroExecutionReport ==
    [f \in {"ClOrdID", "OrderID", "ExecID", "Account", "Symbol", "OrdStatus", "ExecType",
            "Side", "OrdType", "OrderQty", "CumQty", "LeavesQty", "CashOrderQty", "Price",
            "AvgPx", "LastPx", "LastShares", "Commission", "FilledAmt", "NetAvgPx",
            "OrdRejReason", "Text", "EffectiveTime"} |-> ""]

\* The composite literal: the zero value with the fields given.
With(zero, fields) ==
    [f \in DOMAIN zero |-> IF f \in DOMAIN fields THEN fields[f] ELSE zero[f]]

\* m[k] = v
Put(m, k, v) == [x \in (DOMAIN m) \cup {k} |-> IF x = k THEN v ELSE m[x]]

\* delete(m, k)
Delete(m, k) == [x \in (DOMAIN m) \ {k} |-> m[x]]

Range(m) == {m[x] : x \in DOMAIN m}

\* The address of the next object made: the lowest one not in use.
NextAddr(h) ==
    CHOOSE a \in 1..(Cardinality(DOMAIN h) + 1) :
        a \notin DOMAIN h /\ \A b \in 1..(a - 1) : b \in DOMAIN h

\* The fields UpdateOrderFromExecReport assigns whatever the report holds.
AssignedFields == {"OrderID", "Symbol", "Side", "OrdType", "OrdStatus", "ExecType", "Account"}

\* The fields UpdateOrderFromExecReport assigns under 'if er.X != ""'.
GuardedFields ==
    {"OrderQty", "CashOrderQty", "Price", "AvgPx", "CumQty", "LeavesQty", "LastPx",
     "LastShares", "ExecID", "Commission", "FilledAmt", "NetAvgPx", "OrdRejReason", "Text"}

\* order is the address of the caller's object; the map gets the pointer itself.
AddOrder(os, order, now) ==
    LET o == os.heap[order]
        stamped == [o EXCEPT !.UpdatedAt = now,
                             !.CreatedAt = IF o.CreatedAt = 0 THEN now ELSE o.CreatedAt]
    IN  [os EXCEPT !.heap[order] = stamped, !.orders = Put(@, stamped.ClOrdID, order)]

AddQuote(os, quote, now) ==
    LET stamped == [os.heap[quote] EXCEPT !.ReceivedAt = now]
    IN  [os EXCEPT !.heap[quote] = stamped, !.quotes = Put(@, stamped.QuoteReqID, quote)]

RemoveOrder(os, clOrdID) == [os EXCEPT !.orders = Delete(@, clOrdID)]

RemoveQuote(os, quoteReqID) == [os EXCEPT !.quotes = Delete(@, quoteReqID)]

\* The order after the assignments of UpdateOrderFromExecReport.
MergeExecReport(order, er, now) ==
    [f \in DOMAIN order |->
        IF f = "UpdatedAt" THEN now
        ELSE IF f \in AssignedFields THEN er[f]
        ELSE IF f \in GuardedFields /\ er[f] # "" THEN er[f]
        ELSE order[f]]

UpdateOrderFromExecReport(os, er, now) ==
    IF er.ClOrdID \in DOMAIN os.orders
       THEN [os EXCEPT !.heap[os.orders[er.ClOrdID]] = MergeExecReport(@, er, now)]
       ELSE LET created == With(ZeroOrder, [ClOrdID |-> er.ClOrdID, CreatedAt |-> now])
            IN  [os EXCEPT !.heap = Put(@, NextAddr(os.heap),
                                              MergeExecReport(created, er, now)),
                           !.orders = Put(@, er.ClOrdID, NextAddr(os.heap))]

\* A read that hands out the pointers of the store.
Copies_Shared(os, stored) == [os |-> os, result |-> stored]

RECURSIVE Copies(_, _)
\* "copy := *x; ... &copy" for each of the stored objects: the store with the
\* copies in its heap, and their addresses.
Copies(os, stored) ==
    IF stored = {}
       THEN [os |-> os, result |-> {}]
       ELSE LET a == CHOOSE x \in stored : TRUE
                rest == Copies([os EXCEPT !.heap = Put(@, NextAddr(os.heap), os.heap[a])],
                               stored \ {a})
            IN  [os |-> rest.os, result |-> rest.result \cup {NextAddr(os.heap)}]

isOpenStatus(status) == status \in {"0", "1", "6", "9", "A", "E"}

\* nil is the empty result.
GetOrder(os, clOrdID) ==
    Copies(os, IF clOrdID \in DOMAIN os.orders THEN {os.orders[clOrdID]} ELSE {})

\* The orders the range loop of GetOrderByOrderID may meet first.
OrdersWithOrderID(os, orderID) == {a \in Range(os.orders) : os.heap[a].OrderID = orderID}

\* found is the order the loop met first, a member of OrdersWithOrderID.
GetOrderByOrderID(os, found) == Copies(os, {found})

GetAllOrders(os) == Copies(os, Range(os.orders))

GetOpenOrders(os) == Copies(os, {a \in Range(os.orders) : isOpenStatus(os.heap[a].OrdStatus)})

GetQuote(os, quoteReqID) ==
    Copies(os, IF quoteReqID \in DOMAIN os.quotes THEN {os.quotes[quoteReqID]} ELSE {})

QuotesWithQuoteID(os, quoteID) == {a \in Range(os.quotes) : os.heap[a].QuoteID = quoteID}

GetQuoteByQuoteID(os, found) == Copies(os, {found})

GetAllQuotes(os) == Copies(os, Range(os.quotes))

\* The orders, quotes and execution reports of the tests.
OrderInputs ==
    { With(ZeroOrder, [ClOrdID |-> "order-1", Symbol |-> "BTC-USD", OrdStatus |-> "A",
                       Price |-> "50000"]),
      With(ZeroOrder, [ClOrdID |-> "order-2", OrderID |-> "cb-12345", Symbol |-> "ETH-USD",
                       OrdStatus |-> "2"]) }

QuoteInputs ==
    { With(ZeroQuote, [QuoteReqID |-> "qr-1", QuoteID |-> "quote-1", Symbol |-> "BTC-USD",
                       BidPx |-> "49990"]) }

ExecReports ==
    { With(ZeroExecutionReport, [ClOrdID |-> "order-1", OrderID |-> "cb-12345",
                                 ExecType |-> "0", OrdStatus |-> "0", Symbol |-> "BTC-USD",
                                 OrderQty |-> "0.01"]),
      With(ZeroExecutionReport, [ClOrdID |-> "order-1", ExecType |-> "4", OrdStatus |-> "4",
                                 Text |-> "canceled"]),
      With(ZeroExecutionReport, [ClOrdID |-> "order-3", OrderID |-> "cb-3", OrdStatus |-> "8",
                                 OrdRejReason |-> "99"]) }

ClOrdIDs == {"order-1", "order-2", "order-3"}

InitOrders ==
    LET ts == NewTradeStore(1)
    IN  /\ maxSize = ts.maxSize
        /\ trades = ts.trades
        /\ head = ts.head
        /\ count = ts.count
        /\ updateCount = ts.updateCount
        /\ subscriptions = ts.subscriptions
        /\ passed = [r \in ReqIds |-> 0]
        /\ nextReqId = 0
        /\ held = NothingHeld
        /\ NoThreads
        /\ NoParser
        /\ NoIngest
        /\ NoOrders

\* What no step of SpecOrders changes.
ordersFrame == <<storeVars, passed, nextReqId, held, threadVars, parserVars, ingestVars>>

\* The objects still in use: those of the store and those the caller holds.
Collect(os, held_) ==
    [a \in (DOMAIN os.heap) \cap (Range(os.orders) \cup Range(os.quotes)
                                   \cup held_.own \cup held_.got) |-> os.heap[a]]

\* The order store becomes os and the caller holds held_; what is no longer in
\* use is freed.
OrdersBecome(os, held_) ==
    /\ Cardinality(DOMAIN Collect(os, held_)) <= MaxObjects
    /\ heap' = Collect(os, held_)
    /\ orders' = os.orders
    /\ quotes' = os.quotes
    /\ refs' = held_

\* The caller makes an object, as "&Order{...}".
New(os, obj) == [os EXCEPT !.heap = Put(@, NextAddr(os.heap), obj)]

\* store.AddOrder(o) with a new object o, which the caller keeps.
CallAddOrder ==
    /\ clock < MaxOrderCalls
    /\ \E o \in OrderInputs :
           OrdersBecome(AddOrder(New(OS, o), NextAddr(heap), clock + 1),
                        [refs EXCEPT !.own = {NextAddr(heap)}])
    /\ clock' = clock + 1
    /\ UNCHANGED ordersFrame

CallAddQuote ==
    /\ clock < MaxOrderCalls
    /\ \E q \in QuoteInputs :
           OrdersBecome(AddQuote(New(OS, q), NextAddr(heap), clock + 1),
                        [refs EXCEPT !.own = {NextAddr(heap)}])
    /\ clock' = clock + 1
    /\ UNCHANGED ordersFrame

CallUpdateOrderFromExecReport ==
    /\ clock < MaxOrderCalls
    /\ \E er \in ExecReports :
           OrdersBecome(UpdateOrderFromExecReport(OS, er, clock + 1), refs)
    /\ clock' = clock + 1
    /\ UNCHANGED ordersFrame

CallRemoveOrder ==
    /\ \E clOrdID \in DOMAIN orders : OrdersBecome(RemoveOrder(OS, clOrdID), refs)
    /\ UNCHANGED <<clock, ordersFrame>>

CallRemoveQuote ==
    /\ \E quoteReqID \in DOMAIN quotes : OrdersBecome(RemoveQuote(OS, quoteReqID), refs)
    /\ UNCHANGED <<clock, ordersFrame>>

\* The caller takes what a read returned.
Got(read) ==
    /\ OrdersBecome(read.os, [refs EXCEPT !.got = read.result])
    /\ UNCHANGED <<clock, ordersFrame>>

CallGetOrder == \E clOrdID \in ClOrdIDs : Got(GetOrder(OS, clOrdID))

CallGetOrderByOrderID ==
    \E found \in OrdersWithOrderID(OS, "cb-12345") : Got(GetOrderByOrderID(OS, found))

CallGetAllOrders == Got(GetAllOrders(OS))

CallGetOpenOrders == Got(GetOpenOrders(OS))

CallGetQuote == Got(GetQuote(OS, "qr-1"))

CallGetQuoteByQuoteID ==
    \E found \in QuotesWithQuoteID(OS, "quote-1") : Got(GetQuoteByQuoteID(OS, found))

CallGetAllQuotes == Got(GetAllQuotes(OS))

\* The heap after the caller's "x.Symbol = ..." through the pointer a.
Written(h, a) == [h EXCEPT ![a] = [@ EXCEPT !.Symbol = "MODIFIED"]]

\* The caller writes through a pointer it holds.
WriteThroughPointer ==
    /\ \E a \in refs.own \cup refs.got : heap' = Written(heap, a)
    /\ UNCHANGED <<orders, quotes, refs, clock, ordersFrame>>

NextOrders ==
    \/ CallAddOrder
    \/ CallAddQuote
    \/ CallUpdateOrderFromExecReport
    \/ CallRemoveOrder
    \/ CallRemoveQuote
    \/ CallGetOrder
    \/ CallGetOrderByOrderID
    \/ CallGetAllOrders
    \/ CallGetOpenOrders
    \/ CallGetQuote
    \/ CallGetQuoteByQuoteID
    \/ CallGetAllQuotes
    \/ WriteThroughPointer

SpecOrders == InitOrders /\ [][NextOrders]_vars

\* The order with the ClOrdID of the report before it is applied: the stored one,
\* or the one UpdateOrderFromExecReport creates first.
OrderBefore(os, er) ==
    IF er.ClOrdID \in DOMAIN os.orders
       THEN os.heap[os.orders[er.ClOrdID]]
       ELSE With(ZeroOrder, [ClOrdID |-> er.ClOrdID])

\* C32: applying an execution report is a field-by-field merge: every order field
\* the report carries takes the report's value only when that value is not
\* empty and keeps its own value otherwise, and a report for an unknown ClOrdID
\* first creates the order.
C32_ExecReportMergesNonEmptyFields ==
    \A er \in ExecReports :
        LET after == UpdateOrderFromExecReport(OS, er, clock + 1)
            old == OrderBefore(OS, er)
        IN  /\ er.ClOrdID \in DOMAIN after.orders
            /\ \A f \in AssignedFields \cup GuardedFields :
                  after.heap[after.orders[er.ClOrdID]][f] =
                      IF er[f] # "" THEN er[f] ELSE old[f]

\* The objects a read returned.
ValuesOf(read) == {read.os.heap[a] : a \in read.result}

\* What each read of the order store returns.
Reads(os) ==
    [ GetOrder |-> [c \in ClOrdIDs |-> ValuesOf(GetOrder(os, c))],
      GetOrderByOrderID |-> {ValuesOf(GetOrderByOrderID(os, found)) :
                                found \in OrdersWithOrderID(os, "cb-12345")},
      GetAllOrders |-> ValuesOf(GetAllOrders(os)),
      GetOpenOrders |-> ValuesOf(GetOpenOrders(os)),
      GetQuote |-> ValuesOf(GetQuote(os, "qr-1")),
      GetQuoteByQuoteID |-> {ValuesOf(GetQuoteByQuoteID(os, found)) :
                                found \in QuotesWithQuoteID(os, "quote-1")},
      GetAllQuotes |-> ValuesOf(GetAllQuotes(os)) ]

\* C33: what a read of the order store returned is a copy: it is no object of
\* the store, and a write through it leaves what every read returns as it was.
C33_ReadsReturnDefensiveCopies ==
    /\ refs.got \cap (Range(orders) \cup Range(quotes)) = {}
    /\ \A a \in refs.got : Reads([OS EXCEPT !.heap = Written(heap, a)]) = Reads(OS)

\* The caller has changed the Symbol of the order-1 that GetOrder returned, and
\* the stored order-1 has its own.
C33_Witness ==
    /\ "order-1" \in DOMAIN orders
    /\ heap[orders["order-1"]].Symbol = "BTC-USD"
    /\ \E a \in refs.got :
           /\ "ClOrdID" \in DOMAIN heap[a]
           /\ heap[a].ClOrdID = "order-1"
           /\ heap[a].Symbol = "MODIFIED"

\* C40: the objects of the order store are not aliased outside it: the object
\* the caller passed to AddOrder or AddQuote is not the stored one, so a later
\* write to it changes nothing a read returns, and AddOrder leaves the caller's
\* object as it was.
C40_StoredRecordsNotAliased ==
    /\ refs.own \cap (Range(orders) \cup Range(quotes)) = {}
    /\ \A a \in refs.own : Reads([OS EXCEPT !.heap = Written(heap, a)]) = Reads(OS)
    /\ \A o \in OrderInputs :
          AddOrder(New(OS, o), NextAddr(heap), clock + 1).heap[NextAddr(heap)] = o

(***************************************************************************)
(* The md command (handleDirectMdRequest and parseMdFlags).  The command  *)
(* line is inMsg.text, the sequence of its words (parts); outVal is what  *)
(* the handler did with it.                                               *)
(***************************************************************************)

\* Most words after "md <symbol>" on a command line.
MaxArgs == 3

SubscriptionRequestTypeUnsubscribe == "2"

MdEntryTypeOffer == <<"1">>

MdEntryTypeOpen == <<"4">>

\* The words after the symbol: flags, and a depth.
MdWords == {"--snapshot", "--subscribe", "--unsubscribe", "--depth", "--trades", "--o", "1"}

\* The command lines: "md" alone, and "md btc-usd" with up to MaxArgs words.
MdLines ==
    {<<"md">>} \cup
    {<<"md", "btc-usd">> \o args : args \in UNION {[1..k -> MdWords] : k \in 0..MaxArgs}}

\* strings.HasPrefix(part, "--"), on the words of the command lines.
HasDashPrefix(part) ==
    part \in {"--snapshot", "--subscribe", "--unsubscribe", "--depth", "--trades", "--o"}

\* strings.ToUpper(part), on the words of the command lines.
ToUpper(part) == IF part = "btc-usd" THEN "BTC-USD" ELSE part

RECURSIVE ParseMdFlagsLoop(_, _, _)
\* The loop of parseMdFlags from args[i] on (i counts from 0).
ParseMdFlagsLoop(args, i, flags) ==
    IF ~(i < Len(args))
       THEN flags
       ELSE LET arg == args[i + 1]
            IN  CASE arg = "--snapshot" ->
                        ParseMdFlagsLoop(args, i + 1,
                            [flags EXCEPT !.subscriptionType = SubscriptionRequestTypeSnapshot])
                  [] arg = "--subscribe" ->
                        ParseMdFlagsLoop(args, i + 1,
                            [flags EXCEPT !.subscriptionType = SubscriptionRequestTypeSubscribe])
                  [] arg = "--unsubscribe" ->
                        ParseMdFlagsLoop(args, i + 1,
                            [flags EXCEPT !.subscriptionType = SubscriptionRequestTypeUnsubscribe])
                  [] arg = "--depth" ->
                        IF i + 1 < Len(args)
                           THEN ParseMdFlagsLoop(args, i + 2,
                                    [flags EXCEPT !.marketDepth = args[i + 2]])
                           ELSE ParseMdFlagsLoop(args, i + 1, flags)
                  [] arg = "--trades" ->
                        ParseMdFlagsLoop(args, i + 1,
                            [flags EXCEPT !.entryTypes = Append(@, MdEntryTypeTrade)])
                  [] arg = "--o" ->
                        ParseMdFlagsLoop(args, i + 1,
                            [flags EXCEPT !.entryTypes = Append(@, MdEntryTypeOpen)])
                  [] OTHER -> ParseMdFlagsLoop(args, i + 1, flags)

parseMdFlags(args) ==
    ParseMdFlagsLoop(args, 0, [subscriptionType |-> "", marketDepth |-> "", entryTypes |-> <<>>])

\* flagStart after the loop over parts[1:] and the test that follows it.
FlagStart(parts) ==
    LET dashed == {i \in 1..(Len(parts) - 1) : HasDashPrefix(parts[i + 1])}
    IN  IF dashed = {} THEN Len(parts) ELSE CHOOSE i \in dashed : \A j \in dashed : i <= j

\* The symbols the loop over parts[1:] collects.
MdSymbols(parts) == [i \in 1..(FlagStart(parts) - 1) |-> ToUpper(parts[i + 1])]

\* flagArgs
FlagArgs(parts) == Slice(parts, FlagStart(parts), Len(parts))

\* "if flags.marketDepth == "" { flags.marketDepth = "0" }"
DefaultDepth(flags) ==
    IF flags.marketDepth = "" THEN [flags EXCEPT !.marketDepth = "0"] ELSE flags

\* "if len(flags.entryTypes) == 0 { ... }"
DefaultEntryTypes(flags) ==
    IF Len(flags.entryTypes) = 0
       THEN IF flags.marketDepth # ""
               THEN [flags EXCEPT !.entryTypes = <<MdEntryTypeBid, MdEntryTypeOffer>>]
               ELSE [flags EXCEPT !.entryTypes = <<MdEntryTypeTrade>>]
       ELSE flags

\* What handleDirectMdRequest does: the call it ends with and its arguments.
handleDirectMdRequest(parts) ==
    IF Len(parts) < 2
       THEN [call |-> "usage"]
       ELSE LET given == parseMdFlags(FlagArgs(parts))
                flags == DefaultEntryTypes(DefaultDepth(given))
            IN  IF given.subscriptionType = ""
                   THEN [call |-> "error"]
                   ELSE IF given.subscriptionType = SubscriptionRequestTypeUnsubscribe
                   THEN [call |-> "sendUnsubscribeBySymbol", symbols |-> MdSymbols(parts)]
                   ELSE [call |-> "sendMarketDataRequestWithOptions",
                         symbols |-> MdSymbols(parts),
                         subscriptionType |-> flags.subscriptionType,
                         marketDepth |-> flags.marketDepth,
                         entryTypes |-> flags.entryTypes,
                         description |->
                             IF flags.subscriptionType = SubscriptionRequestTypeSubscribe
                                THEN "Live Subscription" ELSE "Snapshot"]

InitMd ==
    LET ts == NewTradeStore(1)
    IN  /\ maxSize = ts.maxSize
        /\ trades = ts.trades
        /\ head = ts.head
        /\ count = ts.count
        /\ updateCount = ts.updateCount
        /\ subscriptions = ts.subscriptions
        /\ passed = [r \in ReqIds |-> 0]
        /\ nextReqId = 0
        /\ held = NothingHeld
        /\ NoThreads
        /\ NoIngest
        /\ NoOrders
        /\ \E parts \in MdLines : inMsg = [NoMdEntries |-> <<>>, text |-> parts, group |-> <<>>]
        /\ outVal = [fn |-> "", arg |-> <<>>, val |-> <<>>]

ParseMdFlags ==
    /\ outVal.fn = ""
    /\ Len(inMsg.text) >= 2
    /\ outVal' = [fn |-> "parseMdFlags", arg |-> FlagArgs(inMsg.text),
                  val |-> parseMdFlags(FlagArgs(inMsg.text))]
    /\ UNCHANGED parserFrame

HandleDirectMdRequest ==
    /\ outVal.fn = ""
    /\ outVal' = [fn |-> "handleDirectMdRequest", arg |-> inMsg.text,
                  val |-> handleDirectMdRequest(inMsg.text)]
    /\ UNCHANGED parserFrame

NextMd ==
    \/ ParseMdFlags
    \/ HandleDirectMdRequest

SpecMd == InitMd /\ [][NextMd]_vars

\* C36: a md request whose command line gives no entry-type flag is sent with
\* the entry types bid and offer when the line gives a depth, and with the
\* entry type trade when it gives none.
C36_EntryTypesDefaultByDepth ==
    (/\ outVal.fn = "handleDirectMdRequest"
     /\ outVal.val.call = "sendMarketDataRequestWithOptions"
     /\ parseMdFlags(FlagArgs(inMsg.text)).entryTypes = <<>>)
        => outVal.val.entryTypes =
               IF parseMdFlags(FlagArgs(inMsg.text)).marketDepth # ""
                  THEN <<MdEntryTypeBid, MdEntryTypeOffer>>
                  ELSE <<MdEntryTypeTrade>>

====
